---- MODULE Spec2Model ----
(***************************************************************************)
(* OmniSage: knowledge retrieval and generation orchestrator.              *)
(*                                                                         *)
(* Five subsystems are modelled; each specification runs one of them and   *)
(* leaves the variables of the others as they were initialised:            *)
(*   SpecWiki       the encyclopedic service (WikiService)                 *)
(*   SpecWikiCache  the query cache in front of it (WikiKnowledgeBase)     *)
(*   SpecKB         the knowledge base manager (upload, delete)            *)
(*   SpecKBFiles    the same without delete_knowledge_base                 *)
(*   SpecCreate     concurrent create_knowledge_base requests              *)
(*   SpecStream     LLMController.process_message, one request             *)
(*   SpecRetrieve   get_rag_context and the retriever of a RAG chain       *)
(*   SpecRerank     LangchainReranker.compress_documents                   *)
(*   SpecTitle      zh_title_enhance, run once or twice over a chunk list  *)
(* Strings whose content matters (file names, cache keys) are sequences of *)
(* characters, so that substring tests and concatenations are computed.    *)
(***************************************************************************)
EXTENDS Integers, Sequences, FiniteSets, TLC

VARIABLES
    \* ---- encyclopedic service (wiki_service.py) ----
    wikiMode,       \* WikiService.mode
    vectorstore,    \* WikiService.vectorstore: "unset" (no attribute), "none", "open"
    wikiCount,      \* chunks stored in the offline index wiki_data/wiki_vectors
    cache,          \* WikiKnowledgeBase.cache: key -> [time, data]
    now,            \* time.time()
    wikiCall,       \* the last completed call on the service, with what it returned
    \* ---- knowledge base manager (knowledgebase_service.py, database_service.py) ----
    kbs,            \* table knowledge_bases: the row with id i is kbs[i]
    kfiles,         \* table knowledge_files
    dirs,           \* directories that exist (upload and vector directories)
    disk,           \* paths of the uploaded files on disk
    chroma,         \* chunks in the vector indexes: [dir, id, source, by]
    clock,          \* datetime.now(), in seconds
    nextFileId,     \* next id of knowledge_files
    uploads,        \* uploads that reached the write so far
    kbCall,         \* the last completed call on the manager, with what it returned
    cpc,            \* per create request in flight: where it is and its arguments
    \* ---- one request through LLMController.process_message (llm_service.py) ----
    spc,            \* "start", "streaming", "done"
    sreq,           \* the payload and what chain construction returned
    branch,         \* the branch taken: kb_rag, wiki_rag, generate, chat, none
    in_reasoning,   \* the local flag of the streaming loop
    out,            \* the fragments yielded so far
    ntok,           \* chunks the chain has streamed so far
    llmUse,         \* which branch handed the request to the language model
    raised,         \* the language model call or its stream has raised
    \* ---- retrieval (knowledgebase_service.py, rag_chain_service.py, reranker.py) ----
    sim,            \* similarity of each stored chunk to the query, in tenths
    corrupt,        \* vector directories whose index cannot be opened
    rcall,          \* the last completed retrieval call, with what it returned
    ccall,          \* the last completed compress_documents call
    \* ---- title enrichment (title_enhancer.py) ----
    split_docs,     \* the chunk list handed to zh_title_enhance, changed in place
    first_pass,     \* the page contents the first pass returned
    passes,         \* passes run over the list so far
    \* ---- the second encyclopedic service of the process (rag_chain_service.py) ----
    chain_wiki,     \* rag_chain_service.wiki_service: [mode, vs]
    chain_cache,    \* rag_chain_service.wiki_kb.cache
    answered,       \* cache keys the chat requests have searched for so far
    last_switch,    \* target of the last successful switch through the endpoint
    pcall,          \* the last completed endpoint or chain call, with what it saw
    \* ---- one call of the service to the online API (wiki_service.py) ----
    opc,            \* idle, probe, search, summary, content, categories, returned
    olimit,         \* the limit argument of the search, 0 for a probe
    ohits,          \* titles of the search answer still to be fetched
    opages,         \* pages collected so far, each with or without categories
    oreqs,          \* requests sent by the call so far
    oblocked,       \* the call waits in a request that never returns
    \* ---- the messages of a request without retrieval (llm_service.py) ----
    mpc,            \* "start", "done"
    mreq,           \* the payload: mode, prompt_name, chat_history, message
    handed          \* what was handed to the chain: kind, messages, input

wikiVars == <<wikiMode, vectorstore, wikiCount, cache, now, wikiCall>>
kbVars == <<kbs, kfiles, dirs, disk, chroma, clock, nextFileId, uploads, kbCall, cpc>>

streamVars == <<spc, sreq, branch, in_reasoning, out, ntok, llmUse, raised>>

retrVars == <<sim, corrupt, rcall, ccall>>

titleVars == <<split_docs, first_pass, passes>>

procVars == <<chain_wiki, chain_cache, answered, last_switch, pcall>>

onlineVars == <<opc, olimit, ohits, opages, oreqs, oblocked>>

msgVars == <<mpc, mreq, handed>>

\* the groups added after the first five
restVars == <<procVars, onlineVars, msgVars>>

vars == <<wikiVars, kbVars, streamVars, retrVars, titleVars, restVars>>

\* what the encyclopedic service never touches
otherVarsW == <<kbVars, streamVars, retrVars, titleVars, restVars>>
\* what the knowledge base manager never touches
otherVarsK == <<wikiVars, streamVars, retrVars, titleVars, restVars>>
\* what a chat request never touches
otherVarsS == <<wikiVars, kbVars, retrVars, titleVars, restVars>>
\* what a retrieval only reads or never touches
otherVarsR == <<wikiVars, kbVars, streamVars, titleVars, restVars, sim, corrupt>>
\* what title enrichment never touches
otherVarsT == <<wikiVars, kbVars, streamVars, retrVars, restVars>>
\* what the endpoints and chains over the two services never touch
otherVarsP == <<kbVars, streamVars, retrVars, titleVars, onlineVars, msgVars>>
\* what a call to the online API never touches
otherVarsO == <<wikiVars, kbVars, streamVars, retrVars, titleVars, procVars, msgVars>>
\* what building the message list never touches
otherVarsM == <<wikiVars, kbVars, streamVars, retrVars, titleVars, procVars, onlineVars>>

(***************************************************************************)
(* Bounds of the model.                                                    *)
(***************************************************************************)
MaxWikiChunks == 1      \* chunks the offline index can hold
MaxTime == 3600         \* the clock stops here
TickStep == 1800        \* seconds between two observable instants
MaxIngests == 2         \* uploads that get as far as writing the file
MaxChunks == 2          \* chunks one document is split into at most
MaxClock == 2           \* seconds the upload clock can show
MaxTokens == 3          \* chunks one model stream delivers at most
MaxKBs == 2             \* rows of knowledge_bases
MaxDocs == 3            \* candidates handed to the reranker at most
MaxTopN == 3            \* top_n of the reranker at most
MaxTitleChunks == 3     \* chunks in the list handed to title enrichment
MaxPasses == 2          \* passes of title enrichment over one list
MaxChunkLen == 3        \* chunk_size: the longest chunk the splitter returns
MaxHits == 3            \* the limit of a keyword search at most
MaxHistory == 2         \* entries of chat_history at most

(***************************************************************************)
(* Text helpers.                                                           *)
(***************************************************************************)
DigitChars == <<"0", "1", "2", "3", "4", "5", "6", "7", "8", "9">>

\* str(n) of a non-negative int, as used by an f-string
RECURSIVE IntToStr(_)
IntToStr(n) ==
    IF n < 10 THEN <<DigitChars[n + 1]>>
    ELSE IntToStr(n \div 10) \o <<DigitChars[(n % 10) + 1]>>

\* Python's `a in b` on strings
IsSubstring(a, b) ==
    \E i \in 0..(Len(b) - Len(a)) : SubSeq(b, i + 1, i + Len(a)) = a

(***************************************************************************)
(* Encyclopedic service: environment.                                      *)
(***************************************************************************)
\* session.get(.../page/summary/...) : status 200, another status, or raises
ProbeOutcomes == {"ok200", "non200", "raises"}
\* Chroma(...) in _init_vectorstore: opens or raises
OpenOutcomes == {"opens", "raises"}
\* collection.count() in _check_offline_available: answers or raises
CountOutcomes == {"answers", "raises"}

RequestedModes == {"auto", "online", "offline"}
SwitchTargets == {"online", "offline", "auto"}

Queries == { <<"a">>, <<"a", "1">> }
Limits == {5, 15}

\* what a search (online or offline) hands back: nothing (also on failure) or a page
PageLists == { <<>>, <<"t1">> }

(***************************************************************************)
(* WikiService                                                             *)
(***************************************************************************)
\* _init_vectorstore: the handle after the call
InitVectorstore(open) == IF open = "opens" THEN "open" ELSE "none"

\* mutant: the handle is tested, the chunk count is not
CheckOfflineHandleOnly(vs, count, cnt) == vs = "open"

\* _check_offline_available
CheckOfflineAvailable(vs, count, cnt) ==
    IF vs = "unset" \/ vs = "none" THEN FALSE
    ELSE IF cnt = "raises" THEN FALSE
    ELSE count > 0

\* mutant: with the probe failed and the index unusable the mode stays auto
InitAutoModeStaysAuto(probe, open, cnt, count) ==
    IF probe = "ok200" THEN [mode |-> "online", vs |-> "unset"]
    ELSE LET vs == InitVectorstore(open)
         IN  IF CheckOfflineAvailable(vs, count, cnt)
             THEN [mode |-> "offline", vs |-> vs]
             ELSE [mode |-> "auto", vs |-> vs]

\* _init_auto_mode: [mode, vectorstore] after the call
InitAutoMode(probe, open, cnt, count) ==
    IF probe = "ok200" THEN [mode |-> "online", vs |-> "unset"]
    ELSE LET vs == InitVectorstore(open)
         IN  IF CheckOfflineAvailable(vs, count, cnt)
             THEN [mode |-> "offline", vs |-> vs]
             ELSE [mode |-> "online", vs |-> vs]

\* _init_online_mode
InitOnlineMode == [mode |-> "online", vs |-> "unset"]

\* _init_offline_mode
InitOfflineMode(open, cnt, count) ==
    LET vs == InitVectorstore(open)
    IN  IF ~CheckOfflineAvailable(vs, count, cnt)
        THEN [mode |-> "online", vs |-> vs]
        ELSE [mode |-> "offline", vs |-> vs]

\* WikiService.__init__(mode)
WikiServiceInit(mode, probe, open, cnt, count) ==
    IF mode = "auto" THEN InitAutoMode(probe, open, cnt, count)
    ELSE IF mode = "online" THEN InitOnlineMode
    ELSE InitOfflineMode(open, cnt, count)

EmptyCache == [k \in {} |-> 0]

NoCall == [op |-> "none", target |-> "none", probe |-> "none", empty |-> FALSE,
           before |-> "none", ret |-> FALSE, query |-> <<>>, limit |-> 0,
           hit |-> FALSE, searches |-> 0, data |-> <<>>, cnt |-> "none"]

InitWiki ==
    \E m \in RequestedModes, p \in ProbeOutcomes, o \in OpenOutcomes,
       c \in CountOutcomes, n \in 0..MaxWikiChunks :
        LET s == WikiServiceInit(m, p, o, c, n)
        IN  /\ wikiMode = s.mode
            /\ vectorstore = s.vs
            /\ wikiCount = n
            /\ cache = EmptyCache
            /\ now = 0
            /\ wikiCall = [NoCall EXCEPT !.op = "__init__", !.target = m,
                                         !.probe = p, !.empty = (n = 0),
                                         !.before = m, !.ret = TRUE, !.cnt = c]

\* mutant: the mode is assigned before the target is probed and not restored
SwitchModeAssignFirst(mode, vs, new_mode, probe, open, cnt, count) ==
    IF new_mode = mode THEN [mode |-> mode, vs |-> vs, ret |-> TRUE]
    ELSE IF new_mode = "online"
        THEN [mode |-> "online", vs |-> vs, ret |-> (probe = "ok200")]
    ELSE IF new_mode = "offline" THEN
        LET vs2 == InitVectorstore(open)
        IN  [mode |-> "offline", vs |-> vs2,
             ret |-> CheckOfflineAvailable(vs2, count, cnt)]
    ELSE [mode |-> mode, vs |-> vs, ret |-> FALSE]

\* switch_mode(new_mode): [mode, vs, ret] after the call
SwitchModeResult(mode, vs, new_mode, probe, open, cnt, count) ==
    IF new_mode = mode THEN [mode |-> mode, vs |-> vs, ret |-> TRUE]
    ELSE IF new_mode = "online" THEN
        IF probe = "ok200" THEN [mode |-> "online", vs |-> vs, ret |-> TRUE]
        ELSE [mode |-> mode, vs |-> vs, ret |-> FALSE]
    ELSE IF new_mode = "offline" THEN
        LET vs2 == InitVectorstore(open)
        IN  IF CheckOfflineAvailable(vs2, count, cnt)
            THEN [mode |-> "offline", vs |-> vs2, ret |-> TRUE]
            ELSE [mode |-> mode, vs |-> vs2, ret |-> FALSE]
    ELSE [mode |-> mode, vs |-> vs, ret |-> FALSE]

\* one call switch_mode(t); p, o, c are what the endpoint, the index directory and
\* the collection answer if the call consults them
SwitchMode(t, p, o, c) ==
    LET r == SwitchModeResult(wikiMode, vectorstore, t, p, o, c, wikiCount)
    IN  /\ wikiMode' = r.mode
        /\ vectorstore' = r.vs
        /\ wikiCall' = [NoCall EXCEPT !.op = "switch_mode", !.target = t,
                                      !.probe = p, !.empty = (wikiCount = 0),
                                      !.before = wikiMode, !.ret = r.ret,
                                      !.cnt = c]
        /\ UNCHANGED <<wikiCount, cache, now>>
        /\ UNCHANGED otherVarsW

switch_mode ==
    \/ \E p \in ProbeOutcomes : SwitchMode("online", p, "opens", "answers")
    \/ \E o \in OpenOutcomes, c \in CountOutcomes : SwitchMode("offline", "none", o, c)
    \/ SwitchMode("auto", "none", "opens", "answers")

\* process_extracted_articles: only in offline mode are chunks added to the index
process_extracted_articles ==
    \E n \in 0..1 :
        /\ wikiCount + n <= MaxWikiChunks
        /\ wikiCount' = IF wikiMode = "offline" /\ vectorstore = "open"
                        THEN wikiCount + n ELSE wikiCount
        /\ wikiCall' = [NoCall EXCEPT !.op = "process_extracted_articles",
                                      !.before = wikiMode,
                                      !.ret = (wikiMode # "offline" \/ vectorstore = "open")]
        /\ UNCHANGED <<wikiMode, vectorstore, cache, now>>
        /\ UNCHANGED otherVarsW

\* scripts/init_wiki_data.py: another process fills the same index directory
init_with_jsonl_data ==
    /\ wikiCount < MaxWikiChunks
    /\ wikiCount' = wikiCount + 1
    /\ UNCHANGED <<wikiMode, vectorstore, cache, now, wikiCall>>
    /\ UNCHANGED otherVarsW

\* search_articles: which search the call is dispatched to
SearchDispatch(mode, vs, count, cnt) ==
    IF mode = "offline" /\ CheckOfflineAvailable(vs, count, cnt)
    THEN "offline" ELSE "online"

\* WikiService.search_articles(query, limit), called directly
search_articles ==
    \E cnt \in CountOutcomes, pages \in PageLists :
        LET via == SearchDispatch(wikiMode, vectorstore, wikiCount, cnt)
        IN  /\ wikiCall' = [NoCall EXCEPT !.op = "search_articles", !.before = wikiMode,
                                          !.target = via, !.empty = (wikiCount = 0),
                                          !.searches = 1, !.ret = (pages # <<>>)]
            /\ UNCHANGED <<wikiMode, vectorstore, wikiCount, cache, now>>
            /\ UNCHANGED otherVarsW

(***************************************************************************)
(* WikiKnowledgeBase                                                       *)
(***************************************************************************)
cache_ttl == 3600

\* mutant: the separator is left out of the key
CacheKeyNoSeparator(query, limit) == query \o IntToStr(limit)

\* cache_key = f"{query}_{limit}"
CacheKey(query, limit) == query \o <<"_">> \o IntToStr(limit)

\* the freshness test of search_knowledge
CacheFresh(c, key, t) ==
    key \in DOMAIN c /\ t - c[key].time < cache_ttl

\* the source tag search_knowledge puts on every result
SourceTag(mode) == IF mode = "online" THEN "wikipedia_online" ELSE "wikipedia_offline"

\* the result list built from the pages of search_articles
ToResults(pages, mode, via) ==
    [i \in 1..Len(pages) |-> [title |-> pages[i], source |-> SourceTag(mode), via |-> via]]

\* self.cache[cache_key] = (time.time(), results); query and limit are ghost
\* fields remembering the request the entry was computed for
CachePut(c, key, t, data, q, l) ==
    [k \in DOMAIN c \cup {key} |->
        IF k = key THEN [time |-> t, data |-> data, query |-> q, limit |-> l]
        ELSE c[k]]

\* one call search_knowledge(q, l); cnt and pages are what the index and the
\* search answer if the call consults them
SearchKnowledge(q, l, cnt, pages) ==
    LET key == CacheKey(q, l)
        via == SearchDispatch(wikiMode, vectorstore, wikiCount, cnt)
        results == ToResults(pages, wikiMode, via)
    IN  IF CacheFresh(cache, key, now)
        THEN /\ wikiCall' = [NoCall EXCEPT !.op = "search_knowledge", !.query = q,
                                           !.limit = l, !.before = wikiMode,
                                           !.hit = TRUE, !.searches = 0,
                                           !.data = cache[key].data]
             /\ UNCHANGED <<wikiMode, vectorstore, wikiCount, cache, now>>
             /\ UNCHANGED otherVarsW
        ELSE /\ cache' = CachePut(cache, key, now, results, q, l)
             /\ wikiCall' = [NoCall EXCEPT !.op = "search_knowledge", !.query = q,
                                           !.limit = l, !.before = wikiMode,
                                           !.hit = FALSE, !.searches = 1,
                                           !.data = results]
             /\ UNCHANGED <<wikiMode, vectorstore, wikiCount, now>>
             /\ UNCHANGED otherVarsW

search_knowledge ==
    \E q \in Queries, l \in Limits, cnt \in CountOutcomes, pages \in PageLists :
        SearchKnowledge(q, l, cnt, pages)

\* time passes
Tick ==
    /\ now + TickStep <= MaxTime
    /\ now' = now + TickStep
    /\ UNCHANGED <<wikiMode, vectorstore, wikiCount, cache, wikiCall>>
    /\ UNCHANGED otherVarsW

(***************************************************************************)
(* Claims about the encyclopedic service.                                  *)
(***************************************************************************)

\* C8: switch_mode("offline") while the offline index is empty returns failure
\* and leaves the mode as it was; switch_mode("online") while the probe endpoint
\* answers 200 returns success and the mode is online afterwards.
C8_ModeSwitchSafety ==
    wikiCall.op = "switch_mode" =>
        /\ (wikiCall.target = "offline" /\ wikiCall.empty)
                => (~wikiCall.ret /\ wikiMode = wikiCall.before)
        /\ (wikiCall.target = "online" /\ wikiCall.probe = "ok200")
                => (wikiCall.ret /\ wikiMode = "online")

\* a switch to offline was refused because the index is empty
C8_Witness ==
    /\ wikiCall.op = "switch_mode"
    /\ wikiCall.target = "offline"
    /\ wikiCall.empty
    /\ ~wikiCall.ret
    /\ wikiMode = "online"

\* C9: after construction and after every switch_mode and search, the mode is
\* online or offline, and it is offline only while the offline index holds at
\* least one chunk.
C9_OfflineOnlyWhenIndexed ==
    /\ wikiMode \in {"online", "offline"}
    /\ wikiMode = "offline" => wikiCount > 0

\* a search ran while the service was in offline mode
C9_Witness ==
    /\ wikiMode = "offline"
    /\ wikiCall.op = "search_articles"
    /\ wikiCall.target = "offline"

\* the cache entries computed for the request (q, l)
EntriesFor(c, q, l) == { k \in DOMAIN c : c[k].query = q /\ c[k].limit = l }

\* C10: search_knowledge(q, l) returns the stored results of (q, l) without
\* searching when that entry is younger than one hour; otherwise it searches
\* once and stores the new results with the current time as the entry of (q, l);
\* the entries of all other requests stay as they were, and no entry serves two
\* different requests.
C10_CacheContract ==
    [][ now' = now =>
          LET q == wikiCall'.query
              l == wikiCall'.limit
              mine == EntriesFor(cache, q, l)
              fresh == { k \in mine : now - cache[k].time < 3600 }
          IN  /\ wikiCall'.op = "search_knowledge"
              /\ Cardinality(mine) <= 1
              /\ IF fresh # {}
                 THEN /\ \A k \in fresh : wikiCall'.data = cache[k].data
                      /\ wikiCall'.searches = 0
                      /\ cache' = cache
                 ELSE /\ wikiCall'.searches = 1
                      /\ \E k \in EntriesFor(cache', q, l) :
                            /\ cache'[k].time = now
                            /\ cache'[k].data = wikiCall'.data
                      /\ Cardinality(EntriesFor(cache', q, l)) = 1
              /\ \A k \in DOMAIN cache \ mine :
                    k \in DOMAIN cache' /\ cache'[k] = cache[k]
       ]_vars

\* a second search for the same request was answered from the cache while
\* another request has its own entry
C10_Witness ==
    /\ wikiCall.op = "search_knowledge"
    /\ wikiCall.hit
    /\ wikiCall.data # <<>>
    /\ Cardinality(DOMAIN cache) >= 2

(***************************************************************************)
(* Knowledge base manager: names and paths.                                *)
(***************************************************************************)
Users == {1, 2}
KbNames == { <<"docs">> }

\* the files a client uploads: the name and the number of chunks the content is
\* cut into; the first name is a substring of the second
Uploads == { [filename |-> <<"report.pdf">>, chunks |-> 1],
             [filename |-> <<"summary_", "report.pdf">>, chunks |-> MaxChunks] }

\* os.path.join(a, b)
PathJoin(a, b) == a \o <<"/">> \o b

\* os.path.basename(path)
Basename(path) ==
    LET seps == { i \in 1..Len(path) : path[i] = "/" }
    IN  IF seps = {} THEN path
        ELSE LET last == CHOOSE i \in seps : \A j \in seps : j <= i
             IN  SubSeq(path, last + 1, Len(path))

\* os.path.join(base_upload_dir, f"user_{user_id}", f"kb_{name}")
UploadDir(user_id, name) ==
    PathJoin(PathJoin(<<"uploaded_files">>, <<"user_">> \o IntToStr(user_id)),
             <<"kb_">> \o name)

\* os.path.join(base_vector_dir, f"user_{user_id}", f"kb_{name}")
VectorDir(user_id, name) ==
    PathJoin(PathJoin(<<"chroma_db">>, <<"user_">> \o IntToStr(user_id)),
             <<"kb_">> \o name)

\* datetime.now().strftime("%Y%m%d_%H%M%S") at second t of the day
Timestamp(t) == <<"20250101", "_">> \o IntToStr(t)

\* unique_filename = f"{timestamp}_{actual_filename}"
UniqueFilename(t, actual_filename) == Timestamp(t) \o <<"_">> \o actual_filename

(***************************************************************************)
(* DatabaseService: knowledge_bases and knowledge_files.                   *)
(***************************************************************************)
KbIds == 1..Len(kbs)

\* mutant: the row is matched by id alone, whoever owns it
KnowledgeBaseByIdAnyOwner(kb_id, user_id) ==
    /\ kb_id \in KbIds
    /\ kbs[kb_id].is_active

\* get_knowledge_base_by_id finds a row
KnowledgeBaseById(kb_id, user_id) ==
    /\ kb_id \in KbIds
    /\ kbs[kb_id].user_id = user_id
    /\ kbs[kb_id].is_active

\* get_knowledge_base_by_name finds a row
KnowledgeBaseByName(user_id, name) ==
    \E i \in KbIds : /\ kbs[i].user_id = user_id
                     /\ kbs[i].name = name
                     /\ kbs[i].is_active

\* get_knowledge_file_by_id: the rows the query matches (is_active is not tested)
KnowledgeFileById(file_id, kb_id, user_id) ==
    { f \in kfiles : /\ f.id = file_id
                     /\ f.knowledge_base_id = kb_id
                     /\ kb_id \in KbIds
                     /\ kbs[kb_id].user_id = user_id }

\* DatabaseService.create_knowledge_base: the new row
NewKnowledgeBase(user_id, name) ==
    [user_id |-> user_id, name |-> name, vector_db_path |-> VectorDir(user_id, name),
     file_count |-> 0, document_count |-> 0, is_active |-> TRUE,
     updated_at |-> clock]

RECURSIVE SumDocumentCount(_)
SumDocumentCount(files) ==
    IF files = {} THEN 0
    ELSE LET f == CHOOSE x \in files : TRUE
         IN  f.document_count + SumDocumentCount(files \ {f})

\* mutant: document_count counts the files instead of summing their chunks
UpdateKnowledgeBaseStatsCountsFiles(table, files, kb_id) ==
    LET mine == { f \in files : f.knowledge_base_id = kb_id }
    IN  [table EXCEPT ![kb_id].file_count = Cardinality(mine),
                      ![kb_id].document_count = Cardinality(mine),
                      ![kb_id].updated_at = clock]

\* update_knowledge_base_stats(kb_id) over the table `files`
UpdateKnowledgeBaseStats(table, files, kb_id) ==
    LET mine == { f \in files : f.knowledge_base_id = kb_id }
    IN  [table EXCEPT ![kb_id].file_count = Cardinality(mine),
                      ![kb_id].document_count = SumDocumentCount(mine),
                      ![kb_id].updated_at = clock]

\* DatabaseService.delete_knowledge_base: soft delete
SoftDelete(table, kb_id) == [table EXCEPT ![kb_id].is_active = FALSE]

(***************************************************************************)
(* KnowledgeBaseService: upload, delete file, delete knowledge base.       *)
(***************************************************************************)
\* what a request carries about the size of the upload: a size within the
\* limit, a size over the limit, or no size attribute while the body is over it
UploadSizes == {"within", "over", "over_unreported"}

\* how far an upload gets once the path is chosen
\*   write_raises   open / copyfileobj raises
\*   no_chunks      _process_document returns []
\*   add_fails      _add_documents_to_vectorstore returns False
\*   getsize_raises os.path.getsize raises once the chunks are stored
\*   record_fails   create_knowledge_file returns None
\*   ok             the record is saved
UploadOutcomes ==
    {"write_raises", "no_chunks", "add_fails", "getsize_raises", "record_fails", "ok"}

NoKbCall == [op |-> "none", ok |-> FALSE, reason |-> "none", kb |-> 0, user |-> 0,
             file |-> 0, path |-> <<>>, written |-> FALSE, removed |-> {},
             size |-> "none"]

\* the chunks _process_document cuts from the file at file_path; `by` is a ghost
\* field: the id of the knowledge_files row this upload ends with, 0 if none
NewChunks(dir, file_path, upload, n, by) ==
    { [dir |-> dir, id |-> <<upload, i>>, source |-> file_path, by |-> by] : i \in 1..n }

\* does the file at file_path exist when the upload returns: the except clause
\* removes it, the early returns do not
UploadKeepsFile(outcome) == outcome \notin {"write_raises", "getsize_raises"}

\* upload_file_to_knowledge_base(knowledge_base_id, user_id, file)
UploadFile(kb_id, user_id, fname, size, outcome, n) ==
    IF ~KnowledgeBaseById(kb_id, user_id) THEN
        /\ kbCall' = [NoKbCall EXCEPT !.op = "upload", !.kb = kb_id, !.user = user_id,
                                      !.reason = "not_found", !.size = size]
        /\ UNCHANGED <<kbs, kfiles, dirs, disk, chroma, clock, nextFileId, uploads, cpc>>
    ELSE IF size = "over" THEN
        /\ kbCall' = [NoKbCall EXCEPT !.op = "upload", !.kb = kb_id, !.user = user_id,
                                      !.reason = "too_large", !.size = size]
        /\ UNCHANGED <<kbs, kfiles, dirs, disk, chroma, clock, nextFileId, uploads, cpc>>
    ELSE
        LET kb == kbs[kb_id]
            actual_filename == Basename(fname)
            unique_filename == UniqueFilename(clock, actual_filename)
            kb_upload_dir == UploadDir(user_id, kb.name)
            file_path == PathJoin(kb_upload_dir, unique_filename)
            \* open() raises when the directory is gone
            exit == IF kb_upload_dir \in dirs THEN outcome ELSE "write_raises"
            added == exit \in {"getsize_raises", "record_fails", "ok"}
            documents == NewChunks(kb.vector_db_path, file_path, uploads + 1, n,
                                   IF exit = "ok" THEN nextFileId ELSE 0)
            row == [id |-> nextFileId, knowledge_base_id |-> kb_id,
                    filename |-> unique_filename, original_filename |-> fname,
                    file_path |-> file_path, document_count |-> n]
            files2 == IF exit = "ok" THEN kfiles \cup {row} ELSE kfiles
        IN  /\ uploads < MaxIngests
            /\ uploads' = uploads + 1
            /\ disk' = IF UploadKeepsFile(exit) THEN disk \cup {file_path}
                       ELSE disk \ {file_path}
            /\ chroma' = IF added THEN chroma \cup documents ELSE chroma
            /\ dirs' = IF added THEN dirs \cup {kb.vector_db_path} ELSE dirs
            /\ kfiles' = files2
            /\ nextFileId' = IF exit = "ok" THEN nextFileId + 1 ELSE nextFileId
            /\ kbs' = IF exit = "ok" THEN UpdateKnowledgeBaseStats(kbs, files2, kb_id)
                      ELSE kbs
            /\ kbCall' = [NoKbCall EXCEPT !.op = "upload", !.kb = kb_id,
                                          !.user = user_id, !.ok = (exit = "ok"),
                                          !.reason = exit, !.path = file_path,
                                          !.written = (exit # "write_raises"),
                                          !.file = IF exit = "ok" THEN nextFileId ELSE 0,
                                          !.size = size]
            /\ UNCHANGED <<clock, cpc>>

\* the requests: one that names no knowledge base of the caller, one that
\* reports a size over the limit, and the uploads that are accepted
upload_file_to_knowledge_base ==
    /\ \/ \E kb_id \in 1..(Len(kbs) + 1), user_id \in Users :
            /\ ~KnowledgeBaseById(kb_id, user_id)
            /\ UploadFile(kb_id, user_id, <<"report.pdf">>, "within", "ok", 1)
       \/ \E kb_id \in KbIds, user_id \in Users :
            /\ KnowledgeBaseById(kb_id, user_id)
            /\ UploadFile(kb_id, user_id, <<"report.pdf">>, "over", "ok", 1)
       \/ \E kb_id \in KbIds, user_id \in Users, u \in Uploads :
            /\ KnowledgeBaseById(kb_id, user_id)
            /\ \/ \E outcome \in UploadOutcomes :
                    UploadFile(kb_id, user_id, u.filename, "within", outcome, u.chunks)
               \/ UploadFile(kb_id, user_id, u.filename, "over_unreported", "ok", u.chunks)
    /\ UNCHANGED otherVarsK

\* _delete_vectors_from_chroma: the chunks whose source basename contains the
\* basename of the original filename
MatchingIds(index, dir, file) ==
    { c \in index : /\ c.dir = dir
                    /\ IsSubstring(Basename(file.original_filename), Basename(c.source)) }

\* what the vector store answers to a delete: it deletes, or it raises
VectorOutcomes == {"deletes", "raises"}
\* what the database answers to a delete: the row is deleted, or the call fails
RecordOutcomes == {"deleted", "fails"}

\* what os.remove does to the file on disk
RemoveOutcomes == {"removes", "raises"}

\* mutant: the record is deleted only when the vector step succeeded
DeleteRecordUnlessVectorFailed(vec, rec) == rec = "deleted" /\ vec = "deletes"

\* DatabaseService.delete_knowledge_file is called whatever the vector step
\* did, and returns True
DeleteRecord(vec, rec) == rec = "deleted"

\* delete_file_from_knowledge_base(file_id, knowledge_base_id, user_id)
DeleteFile(file_id, kb_id, user_id, rm, vec, rec) ==
    LET found == KnowledgeFileById(file_id, kb_id, user_id)
    IN  IF found = {} \/ ~KnowledgeBaseById(kb_id, user_id) THEN
            /\ kbCall' = [NoKbCall EXCEPT !.op = "delete_file", !.kb = kb_id,
                                          !.user = user_id, !.file = file_id,
                                          !.reason = "not_found"]
            /\ UNCHANGED <<kbs, kfiles, dirs, disk, chroma, clock, nextFileId,
                           uploads, cpc>>
        ELSE IF rm = "raises" /\ (CHOOSE f \in found : TRUE).file_path \in disk THEN
            \* os.remove raises: the outer except clause returns the failure
            /\ kbCall' = [NoKbCall EXCEPT !.op = "delete_file", !.kb = kb_id,
                                          !.user = user_id, !.file = file_id,
                                          !.reason = "remove_raises",
                                          !.path = (CHOOSE f \in found : TRUE).file_path]
            /\ UNCHANGED <<kbs, kfiles, dirs, disk, chroma, clock, nextFileId,
                           uploads, cpc>>
        ELSE
            LET knowledge_file == CHOOSE f \in found : TRUE
                kb == kbs[kb_id]
                matching == IF kb.vector_db_path \in dirs /\ vec = "deletes"
                            THEN MatchingIds(chroma, kb.vector_db_path, knowledge_file)
                            ELSE {}
                deleted == DeleteRecord(vec, rec)
                files2 == IF deleted THEN kfiles \ {knowledge_file} ELSE kfiles
            IN  /\ disk' = disk \ {knowledge_file.file_path}
                /\ chroma' = chroma \ matching
                /\ kfiles' = files2
                /\ kbs' = IF deleted
                          THEN UpdateKnowledgeBaseStats(kbs, files2, kb_id) ELSE kbs
                /\ kbCall' = [NoKbCall EXCEPT !.op = "delete_file", !.kb = kb_id,
                                              !.user = user_id, !.file = file_id,
                                              !.ok = deleted,
                                              !.reason = IF rec = "deleted" THEN vec
                                                         ELSE "record_fails",
                                              !.path = knowledge_file.file_path,
                                              !.removed = matching]
                /\ UNCHANGED <<dirs, clock, nextFileId, uploads, cpc>>

delete_file_from_knowledge_base ==
    /\ \/ \E file_id \in 1..nextFileId, kb_id \in 1..(Len(kbs) + 1), user_id \in Users :
            /\ KnowledgeFileById(file_id, kb_id, user_id) = {}
                    \/ ~KnowledgeBaseById(kb_id, user_id)
            /\ DeleteFile(file_id, kb_id, user_id, "removes", "deletes", "deleted")
       \/ \E f \in kfiles, vec \in VectorOutcomes, rec \in RecordOutcomes :
            /\ KnowledgeBaseById(f.knowledge_base_id, kbs[f.knowledge_base_id].user_id)
            /\ DeleteFile(f.id, f.knowledge_base_id, kbs[f.knowledge_base_id].user_id,
                          "removes", vec, rec)
       \/ \E f \in kfiles :
            /\ KnowledgeBaseById(f.knowledge_base_id, kbs[f.knowledge_base_id].user_id)
            /\ f.file_path \in disk
            /\ DeleteFile(f.id, f.knowledge_base_id, kbs[f.knowledge_base_id].user_id,
                          "raises", "deletes", "deleted")
    /\ UNCHANGED otherVarsK

\* how far delete_knowledge_base gets
\*   vector_rmtree_raises  shutil.rmtree of the vector directory raises
\*   upload_rmtree_raises  shutil.rmtree of the upload directory raises
\*   record_fails          DatabaseService.delete_knowledge_base returns False
\*   ok                    the row is soft-deleted
DeleteKbOutcomes == {"vector_rmtree_raises", "upload_rmtree_raises", "record_fails", "ok"}

\* the files below directory d
FilesUnder(d) == { f \in disk : Len(f) > Len(d) /\ SubSeq(f, 1, Len(d)) = d }

\* delete_knowledge_base(knowledge_base_id, user_id)
DeleteKnowledgeBase(kb_id, user_id, outcome) ==
    IF ~KnowledgeBaseById(kb_id, user_id) THEN
        /\ kbCall' = [NoKbCall EXCEPT !.op = "delete_knowledge_base", !.kb = kb_id,
                                      !.user = user_id, !.reason = "not_found"]
        /\ UNCHANGED <<kbs, kfiles, dirs, disk, chroma, clock, nextFileId, uploads, cpc>>
    ELSE
        LET kb == kbs[kb_id]
            kb_upload_dir == UploadDir(user_id, kb.name)
            \* a directory that does not exist is skipped, so its rmtree cannot raise
            exit == IF outcome = "vector_rmtree_raises" /\ kb.vector_db_path \notin dirs
                   THEN "ok"
                   ELSE IF outcome = "upload_rmtree_raises" /\ kb_upload_dir \notin dirs
                   THEN "ok"
                   ELSE outcome
            vector_gone == exit # "vector_rmtree_raises"
            upload_gone == exit \notin {"vector_rmtree_raises", "upload_rmtree_raises"}
        IN  /\ chroma' = IF vector_gone
                         THEN { c \in chroma : c.dir # kb.vector_db_path } ELSE chroma
            /\ disk' = IF upload_gone THEN disk \ FilesUnder(kb_upload_dir) ELSE disk
            /\ dirs' = (dirs \ (IF vector_gone THEN {kb.vector_db_path} ELSE {}))
                             \ (IF upload_gone THEN {kb_upload_dir} ELSE {})
            /\ kbs' = IF exit = "ok" THEN SoftDelete(kbs, kb_id) ELSE kbs
            /\ kbCall' = [NoKbCall EXCEPT !.op = "delete_knowledge_base", !.kb = kb_id,
                                          !.user = user_id, !.ok = (exit = "ok"),
                                          !.reason = exit]
            /\ UNCHANGED <<kfiles, clock, nextFileId, uploads, cpc>>

delete_knowledge_base ==
    /\ \/ \E kb_id \in 1..(Len(kbs) + 1), user_id \in Users :
            /\ ~KnowledgeBaseById(kb_id, user_id)
            /\ DeleteKnowledgeBase(kb_id, user_id, "ok")
       \/ \E kb_id \in KbIds, user_id \in Users, outcome \in DeleteKbOutcomes :
            /\ KnowledgeBaseById(kb_id, user_id)
            /\ DeleteKnowledgeBase(kb_id, user_id, outcome)
    /\ UNCHANGED otherVarsK

\* a second passes on the clock that stamps uploads
ClockTick ==
    /\ clock < MaxClock
    /\ clock' = clock + 1
    /\ UNCHANGED <<kbs, kfiles, dirs, disk, chroma, nextFileId, uploads, kbCall, cpc>>
    /\ UNCHANGED otherVarsK

(***************************************************************************)
(* create_knowledge_base, one step per database or file system access, so  *)
(* that requests of several clients interleave.                            *)
(***************************************************************************)
Clients == {1, 2}
Idle == [pc |-> "idle", user_id |-> 0, name |-> <<>>]

\* existing_kb = get_knowledge_base_by_name(user_id, name); return if it exists
CreateCheck(p) ==
    /\ cpc[p].pc = "idle"
    /\ \E user_id \in Users, name \in KbNames :
        IF KnowledgeBaseByName(user_id, name)
        THEN /\ kbCall' = [NoKbCall EXCEPT !.op = "create_knowledge_base",
                                           !.user = user_id, !.reason = "duplicate_name"]
             /\ UNCHANGED cpc
        ELSE /\ cpc' = [cpc EXCEPT ![p] = [pc |-> "makedirs", user_id |-> user_id,
                                           name |-> name]]
             /\ UNCHANGED kbCall
    /\ UNCHANGED <<kbs, kfiles, dirs, disk, chroma, clock, nextFileId, uploads>>
    /\ UNCHANGED otherVarsK

\* os.makedirs(kb_dir, exist_ok=True); os.makedirs(vector_dir, exist_ok=True)
CreateMakedirs(p) ==
    /\ cpc[p].pc = "makedirs"
    /\ dirs' = dirs \cup {UploadDir(cpc[p].user_id, cpc[p].name),
                          VectorDir(cpc[p].user_id, cpc[p].name)}
    /\ cpc' = [cpc EXCEPT ![p].pc = "insert"]
    /\ UNCHANGED <<kbs, kfiles, disk, chroma, clock, nextFileId, uploads, kbCall>>
    /\ UNCHANGED otherVarsK

\* what the database answers to an insert
InsertOutcomes == {"commits", "fails"}

\* DatabaseService.create_knowledge_base(...) and the return
CreateInsert(p) ==
    /\ cpc[p].pc = "insert"
    /\ \E db \in InsertOutcomes :
        IF db = "commits"
        THEN /\ Len(kbs) < MaxKBs
             /\ kbs' = Append(kbs, NewKnowledgeBase(cpc[p].user_id, cpc[p].name))
             /\ kbCall' = [NoKbCall EXCEPT !.op = "create_knowledge_base",
                                           !.user = cpc[p].user_id, !.ok = TRUE,
                                           !.kb = Len(kbs) + 1, !.reason = "ok"]
        ELSE /\ kbCall' = [NoKbCall EXCEPT !.op = "create_knowledge_base",
                                           !.user = cpc[p].user_id,
                                           !.reason = "record_fails"]
             /\ UNCHANGED kbs
    /\ cpc' = [cpc EXCEPT ![p] = Idle]
    /\ UNCHANGED <<kfiles, dirs, disk, chroma, clock, nextFileId, uploads>>
    /\ UNCHANGED otherVarsK

create_knowledge_base ==
    \E p \in Clients : CreateCheck(p) \/ CreateMakedirs(p) \/ CreateInsert(p)

(***************************************************************************)
(* LLMController.process_message: chain construction.                      *)
(***************************************************************************)
Modes == {"chat", "generate"}

\* WikiService.get_database_stats()["service_type"]; cnt and st are what the
\* collection answers to the availability check and to the statistics
GetDatabaseStats(mode, vs, count, cnt, st) ==
    IF mode = "online" THEN "online"
    ELSE IF ~CheckOfflineAvailable(vs, count, cnt) THEN "offline_unavailable"
    ELSE IF st = "raises" THEN "offline_error"
    ELSE "offline"

\* DatabaseService.get_user_knowledge_bases(user_id)
UserKnowledgeBases(user_id) ==
    { i \in KbIds : kbs[i].user_id = user_id /\ kbs[i].is_active }

\* create_rag_chain_for_user: "wiki", "kb" or "none" (None)
\*   wiki_kb     rag_chain_service.wiki_kb is set
\*   stats       service_type of the encyclopedic service
\*   wiki_chain  create_rag_chain_with_wiki returns a chain
\*   loads       _load_vectorstore returns a vector store
CreateRagChainForUser(user_id, use_wiki, wiki_kb, stats, wiki_chain, loads) ==
    IF use_wiki /\ wiki_kb /\ stats \in {"online", "offline"}
    THEN IF wiki_chain THEN "wiki" ELSE "none"
    ELSE IF UserKnowledgeBases(user_id) = {} THEN "none"
    ELSE IF loads THEN "kb" ELSE "none"

\* LLMController.create_rag_chain: no chain without a language model
CreateRagChain(llm, user_id, use_wiki, wiki_kb, stats, wiki_chain, loads) ==
    IF ~llm THEN "none"
    ELSE CreateRagChainForUser(user_id, use_wiki, wiki_kb, stats, wiki_chain, loads)

\* mutant: without a chain the request is answered as a plain chat
RagPathFallsBackToChat(chain) ==
    IF chain = "wiki" THEN "wiki_rag" ELSE IF chain = "kb" THEN "kb_rag" ELSE "chat"

\* the branch of the RAG arm: stream the chain, or raise when there is none
RagPath(chain) ==
    IF chain = "wiki" THEN "wiki_rag" ELSE IF chain = "kb" THEN "kb_rag" ELSE "none"

(***************************************************************************)
(* LLMController.process_message: the streaming loops.                     *)
(***************************************************************************)
Open == "<think>"
Close == "</think>"

\* the error fragments, one per except clause
ErrChain == "X Chain failed"                 \* the outer except clause
ErrRagStream == "X RAG Chain stream failed"  \* except clause of the RAG loop
ErrGenStream == "X generate stream failed"   \* except clause of the generate loop
ErrChatStream == "X chat stream failed"      \* except clause of the chat loop
ErrorFragments == {ErrChain, ErrRagStream, ErrGenStream, ErrChatStream}

\* what a chain streams: message chunks carrying reasoning_content, content or
\* neither; dicts with or without an answer; plain strings
ChunkKinds(p) ==
    IF p = "kb_rag" THEN {"dict_answer", "dict_other"}
    ELSE {"reasoning", "content", "empty"}

\* the fragments the normal-content arm of the loop of branch p yields for a chunk
NormalContent(p, kind) ==
    IF kind = "content" THEN <<"a">>
    ELSE IF kind = "dict_answer" THEN (IF p = "chat" THEN <<>> ELSE <<"a">>)
    ELSE IF kind = "dict_other" THEN <<>>
    ELSE IF p = "generate" THEN (IF kind = "str" THEN <<"a">> ELSE <<"chunk">>)
    ELSE <<>>

\* one iteration of the loop: [frags, in_reasoning]
ProcessChunk(p, kind, in_r) ==
    IF kind = "reasoning"
    THEN [frags |-> (IF in_r THEN <<>> ELSE <<Open, " \n">>) \o <<"r">>,
          in_reasoning |-> TRUE]
    ELSE [frags |-> (IF in_r THEN <<" \n", Close, " \n\n">> ELSE <<>>)
                        \o NormalContent(p, kind),
          in_reasoning |-> FALSE]

\* after the loop
EndOfStream(in_r) == IF in_r THEN <<Close, " \n">> ELSE <<>>

\* the error fragment of the except clause around the loop of branch p
StreamError(p) ==
    IF p = "generate" THEN ErrGenStream
    ELSE IF p = "chat" THEN ErrChatStream
    ELSE ErrRagStream

NoReq == [mode |-> "none", use_rag |-> FALSE, use_wiki |-> FALSE, chain |-> "none",
          user_id |-> 0]

\* process_message up to the first chunk: the payload is read, the chain is built
Dispatch ==
    /\ spc = "start"
    /\ \E mode \in Modes, use_rag \in BOOLEAN, use_wiki \in BOOLEAN, user_id \in Users,
          llm \in BOOLEAN, wiki_kb \in BOOLEAN, wiki_chain \in BOOLEAN,
          loads \in BOOLEAN, cnt \in CountOutcomes, st \in CountOutcomes :
        LET rag == use_rag \/ use_wiki
            stats == GetDatabaseStats(wikiMode, vectorstore, wikiCount, cnt, st)
            chain == IF rag
                     THEN CreateRagChain(llm, user_id, use_wiki, wiki_kb, stats,
                                         wiki_chain, loads)
                     ELSE "none"
            p == IF rag THEN RagPath(chain)
                 ELSE IF ~llm THEN "none"
                 ELSE IF mode = "generate" THEN "generate" ELSE "chat"
        IN  /\ sreq' = [mode |-> mode, use_rag |-> use_rag, use_wiki |-> use_wiki,
                        chain |-> chain, user_id |-> user_id]
            /\ branch' = p
            /\ llmUse' = p
            /\ IF p = "none"
               THEN spc' = "done" /\ out' = <<ErrChain>>
               ELSE spc' = "streaming" /\ out' = <<>>
    /\ UNCHANGED <<in_reasoning, ntok, raised>>
    /\ UNCHANGED otherVarsS

\* the chain streams one more chunk
ChainYields ==
    /\ spc = "streaming"
    /\ ntok < MaxTokens
    /\ \E kind \in ChunkKinds(branch) :
        LET r == ProcessChunk(branch, kind, in_reasoning)
        IN  /\ out' = out \o r.frags
            /\ in_reasoning' = r.in_reasoning
    /\ ntok' = ntok + 1
    /\ UNCHANGED <<spc, sreq, branch, llmUse, raised>>
    /\ UNCHANGED otherVarsS

\* the stream is exhausted
ChainEnds ==
    /\ spc = "streaming"
    /\ out' = out \o EndOfStream(in_reasoning)
    /\ in_reasoning' = FALSE
    /\ spc' = "done"
    /\ UNCHANGED <<sreq, branch, ntok, llmUse, raised>>
    /\ UNCHANGED otherVarsS

\* what WikiStuffChain.stream does once llm.stream has raised: llm.invoke answers
\* with text, answers with no text, or raises as well
FallbackOutcomes == {"text", "no_text", "raises"}

\* the chunks WikiStuffChain.stream yields after the failure, all of them strings
FallbackChunks(fb) == IF fb = "no_text" THEN <<>> ELSE <<"str">>

\* the language model raises while the stream is consumed
ChainRaises ==
    /\ spc = "streaming"
    /\ IF branch = "wiki_rag"
       THEN \E fb \in FallbackOutcomes :
                LET chunks == FallbackChunks(fb)
                    r == IF chunks = <<>>
                         THEN [frags |-> <<>>, in_reasoning |-> in_reasoning]
                         ELSE ProcessChunk(branch, chunks[1], in_reasoning)
                IN  out' = out \o r.frags \o EndOfStream(r.in_reasoning)
       ELSE out' = Append(out, StreamError(branch))
    /\ in_reasoning' = IF branch = "wiki_rag" THEN FALSE ELSE in_reasoning
    /\ raised' = TRUE
    /\ spc' = "done"
    /\ UNCHANGED <<sreq, branch, ntok, llmUse>>
    /\ UNCHANGED otherVarsS

(***************************************************************************)
(* Retrieval: get_rag_context, the retriever of a RAG chain, the reranker. *)
(***************************************************************************)
\* top_k of a request
TopKs == {1, 2}

\* score_threshold of _search_knowledge_base (0.8) and of a chain (0.5), in tenths
ContextThreshold == 8
ChainThreshold == 5

\* what constructing and calling the cross-encoder can do
RerankerOutcomes == {"scores", "init_raises", "predict_raises"}

\* scores the cross-encoder can give
XScores == {1, 2, 3}

Min(a, b) == IF a < b THEN a ELSE b

\* the enumerations of the set S in descending order of key (ties in any order)
Descending(S, key) ==
    { s \in [1..Cardinality(S) -> S] :
        /\ \A i, j \in DOMAIN s : i # j => s[i] # s[j]
        /\ \A i, j \in DOMAIN s : i < j => key[s[i]] >= key[s[j]] }

\* the rows .all() returns without an ORDER BY, in any order
Unordered(S) == Descending(S, [x \in S |-> 0])

\* DatabaseService.get_user_active_knowledge_bases(user_id): the possible lists
UserActiveKnowledgeBases(user_id) == Unordered(UserKnowledgeBases(user_id))

\* get_user_knowledge_bases(user_id): ORDER BY updated_at DESC
UserKnowledgeBasesByUpdate(user_id) ==
    LET S == UserKnowledgeBases(user_id)
    IN  Descending(S, [i \in S |-> kbs[i].updated_at])

\* the first n elements of a list: s[:n] with n >= 0
Take(s, n) == SubSeq(s, 1, Min(n, Len(s)))

\* retriever.get_relevant_documents with search_type similarity_score_threshold:
\* the chunks of the index at dir that reach the threshold, best first, at most k
SimilaritySearch(dir, k, threshold) ==
    LET hits == { c.id : c \in { d \in chroma : d.dir = dir /\ sim[d.id] >= threshold } }
        ranked == CHOOSE s \in Descending(hits, [h \in hits |-> sim[h]]) : TRUE
    IN  Take(ranked, k)

\* _search_knowledge_base: the page_content strings with the score 1.0; an index
\* that cannot be opened gives the empty list
SearchKnowledgeBase(dir, top_k) ==
    IF dir \in corrupt THEN <<>>
    ELSE LET docs == SimilaritySearch(dir, top_k, ContextThreshold)
         IN  [i \in DOMAIN docs |-> [item |-> docs[i], type |-> "str", score |-> 10]]

RECURSIVE AllResults(_, _)
\* the loop of get_rag_context over the list of knowledge bases
AllResults(knowledge_bases, top_k) ==
    IF knowledge_bases = <<>> THEN <<>>
    ELSE LET kb == kbs[Head(knowledge_bases)]
             results == IF kb.vector_db_path \in dirs
                        THEN SearchKnowledgeBase(kb.vector_db_path, top_k)
                        ELSE <<>>
         IN  results \o AllResults(Tail(knowledge_bases), top_k)

\* sorted(key = score, reverse = True) is stable: the list is one of the
\* descending enumerations that keeps equal scores in their order
SortByScore(results) ==
    LET idx == DOMAIN results
        perm == CHOOSE s \in Descending(idx, [i \in idx |-> results[i].score]) :
                    \A i, j \in DOMAIN s :
                        (i < j /\ results[s[i]].score = results[s[j]].score)
                            => s[i] < s[j]
    IN  [i \in idx |-> results[perm[i]]]

\* the context string: "" when nothing was found; each element of top_results is
\* read as doc.page_content, which raises for a str and ends in the except clause
Context(top_results) ==
    IF top_results = <<>> THEN ""
    ELSE IF \E i \in DOMAIN top_results : top_results[i].type # "Document" THEN ""
    ELSE "context"

NoRetrieval == [op |-> "none", user |-> 0, top_k |-> 0, use_reranker |-> FALSE,
                reranker |-> "none", chain |-> "none", kb |-> 0, candidates |-> <<>>,
                results |-> <<>>, context |-> ""]

\* get_rag_context(user_id, message, top_k)
GetRagContext(user_id, top_k, knowledge_bases) ==
    LET all_results == SortByScore(AllResults(knowledge_bases, top_k))
        top_results == Take(all_results, top_k)
    IN  rcall' = [NoRetrieval EXCEPT !.op = "get_rag_context", !.user = user_id,
                                     !.top_k = top_k,
                                     !.results = [i \in DOMAIN top_results |->
                                                     top_results[i].item],
                                     !.context = Context(top_results)]

get_rag_context ==
    /\ \E user_id \in Users, top_k \in TopKs :
        \E knowledge_bases \in UserActiveKnowledgeBases(user_id) :
            GetRagContext(user_id, top_k, knowledge_bases)
    /\ UNCHANGED <<otherVarsR, ccall>>

\* torch.topk(k) over the scores: the index lists it can return
TopK(score, k) ==
    { s \in [1..k -> DOMAIN score] :
        /\ \A i, j \in DOMAIN s : i # j => s[i] # s[j]
        /\ \A i, j \in DOMAIN s : i < j => score[s[i]] >= score[s[j]]
        /\ \A i \in DOMAIN s : \A m \in DOMAIN score :
               (\A j \in DOMAIN s : s[j] # m) => score[m] <= score[s[i]] }

\* mutant: the failure path returns the documents it was given, untruncated
CompressDocumentsUntruncated(documents, score, top_n, predict) ==
    IF Len(documents) = 0 THEN { <<>> }
    ELSE IF predict = "predict_raises"
    THEN { [i \in DOMAIN documents |-> [doc |-> documents[i], relevance_score |-> 0]] }
    ELSE { [i \in 1..Min(top_n, Len(score)) |->
               [doc |-> documents[s[i]], relevance_score |-> score[s[i]]]] :
           s \in TopK(score, Min(top_n, Len(score))) }

\* LangchainReranker.compress_documents: the lists it can return; score[i] is the
\* cross-encoder score of documents[i]; a document that went through the
\* scoring carries relevance_score, another one carries 0
CompressDocuments(documents, score, top_n, predict) ==
    IF Len(documents) = 0 THEN { <<>> }
    ELSE IF predict = "predict_raises"
    THEN { [i \in 1..Min(top_n, Len(documents)) |->
               [doc |-> documents[i], relevance_score |-> 0]] }
    ELSE LET top_k == IF top_n < Len(score) THEN top_n ELSE Len(score)
         IN  { [i \in 1..top_k |-> [doc |-> documents[s[i]],
                                    relevance_score |-> score[s[i]]]] :
               s \in TopK(score, top_k) }

\* _load_vectorstore(vector_db_path) returns a vector store
LoadVectorstore(dir) == dir \in dirs /\ dir \notin corrupt

\* create_rag_chain_for_user without the wiki, then one query through the chain:
\* the knowledge base list is read, the first one is loaded, the retriever is
\* built and asked
RagQuery(user_id, top_k, use_reranker, reranker, knowledge_bases) ==
    LET call == [NoRetrieval EXCEPT !.op = "rag_query", !.user = user_id,
                                    !.top_k = top_k, !.use_reranker = use_reranker,
                                    !.reranker = reranker]
    IN  IF knowledge_bases = <<>> THEN rcall' = call
        ELSE LET kb == knowledge_bases[1]
                 dir == kbs[kb].vector_db_path
                 k == IF use_reranker THEN top_k * 2 ELSE top_k
                 docs == SimilaritySearch(dir, k, ChainThreshold)
             IN  IF ~LoadVectorstore(dir) THEN rcall' = [call EXCEPT !.kb = kb]
                 ELSE IF use_reranker /\ reranker # "init_raises"
                 THEN \E score \in [DOMAIN docs -> XScores] :
                      \E r \in CompressDocuments(docs, score, top_k, reranker) :
                        rcall' = [call EXCEPT !.kb = kb, !.chain = "kb",
                                              !.candidates = docs,
                                              !.results = [i \in DOMAIN r |-> r[i].doc]]
                 ELSE rcall' = [call EXCEPT !.kb = kb, !.chain = "kb",
                                            !.candidates = docs, !.results = docs]

rag_query ==
    /\ \E user_id \in Users, top_k \in TopKs, use_reranker \in BOOLEAN,
          reranker \in RerankerOutcomes :
        \E knowledge_bases \in UserKnowledgeBasesByUpdate(user_id) :
            /\ (~use_reranker => reranker = "scores")
            /\ RagQuery(user_id, top_k, use_reranker, reranker, knowledge_bases)
    /\ UNCHANGED <<otherVarsR, ccall>>

\* the candidate lists handed to the reranker: n distinct documents
CandidateLists == { [i \in 1..n |-> 100 + i] : n \in 0..MaxDocs }

NoCompress == [op |-> "none", documents |-> <<>>, score |-> <<>>, top_n |-> 0,
               predict |-> "none", returned |-> <<>>]

\* one call of compress_documents on its own
compress_documents ==
    /\ \E documents \in CandidateLists, top_n \in 0..MaxTopN,
          predict \in {"scores", "predict_raises"} :
        \E score \in [DOMAIN documents -> XScores] :
            \E r \in CompressDocuments(documents, score, top_n, predict) :
                ccall' = [op |-> "compress_documents", documents |-> documents,
                          score |-> score, top_n |-> top_n, predict |-> predict,
                          returned |-> r]
    /\ UNCHANGED <<otherVarsR, rcall>>

(***************************************************************************)
(* Title enrichment (title_enhancer.py). A text is a sequence of           *)
(* characters, one token each; the classes below are what str.isalpha,     *)
(* str.isnumeric and the pattern [^\w\s] answer for them.                  *)
(***************************************************************************)
Letters == {"a", "b", "xia", "wen", "yu", "you", "guan"}
Digits == {"1"}

IsAlpha(ch) == ch \in Letters
IsNumeric(ch) == ch \in Digits
\* [^\w\s]: neither a word character nor white space
IsPunct(ch) == ch \notin Letters \cup Digits

title_max_word_length == 20

\* under_non_alpha_ratio(text, 0.5): alpha_count / total_count < 0.5
UnderNonAlphaRatio(text) ==
    IF Len(text) = 0 THEN FALSE
    ELSE LET alpha_count == Cardinality({ i \in DOMAIN text : IsAlpha(text[i]) })
             total_count == Len(text)
         IN  2 * alpha_count < total_count

\* is_possible_title(text)
IsPossibleTitle(text) ==
    IF Len(text) = 0 THEN FALSE
    ELSE IF IsPunct(text[Len(text)]) THEN FALSE
    ELSE IF Len(text) > title_max_word_length THEN FALSE
    ELSE IF UnderNonAlphaRatio(text) THEN FALSE
    ELSE IF text[Len(text)] \in {",", ".", "fw_comma", "fw_stop"} THEN FALSE
    ELSE IF \A i \in DOMAIN text : IsNumeric(text[i]) THEN FALSE
    ELSE LET text_5 == IF Len(text) < 5 THEN text ELSE SubSeq(text, 1, 5)
         IN  \E i \in DOMAIN text_5 : IsNumeric(text_5[i])

\* the back-reference sentence put in front of page_content: the five CJK
\* characters of the f-string are the tokens xia, wen, yu, you, guan and its
\* full stop is fw_stop
BackReference(title, page_content) ==
    <<"xia", "wen", "yu", "(">> \o title \o <<")", "you", "guan", "fw_stop">> \o page_content

RECURSIVE ZhTitleEnhanceFrom(_, _)
\* the loop of zh_title_enhance over the rest of the list; title is the local
\* variable, <<>> while it is None
ZhTitleEnhanceFrom(rest, title) ==
    IF rest = <<>> THEN <<>>
    ELSE LET doc == Head(rest)
         IN  IF IsPossibleTitle(doc.page_content)
             THEN <<[doc EXCEPT !.category = "cn_Title"]>>
                      \o ZhTitleEnhanceFrom(Tail(rest), doc.page_content)
             ELSE IF title # <<>>
             THEN <<[doc EXCEPT !.page_content = BackReference(title, doc.page_content)]>>
                      \o ZhTitleEnhanceFrom(Tail(rest), title)
             ELSE <<doc>> \o ZhTitleEnhanceFrom(Tail(rest), title)

\* zh_title_enhance(docs)
ZhTitleEnhance(list) == ZhTitleEnhanceFrom(list, <<>>)

\* the chunks a splitter can hand over: headings, sentences, a bare number
Texts == { <<"1", "a">>, <<"1", "b", "a">>, <<"a", "fw_stop">>, <<"a", "b">>, <<"1">> }

PageContents(list) == [i \in DOMAIN list |-> list[i].page_content]

\* one pass of title enrichment over the list, in place
zh_title_enhance ==
    /\ passes < MaxPasses
    /\ split_docs' = ZhTitleEnhance(split_docs)
    /\ first_pass' = IF passes = 0 THEN PageContents(split_docs') ELSE first_pass
    /\ passes' = passes + 1
    /\ UNCHANGED otherVarsT

(***************************************************************************)
(* Initial states.                                                         *)
(***************************************************************************)
\* nothing has been created yet
InitKBEmpty ==
    /\ kbs = <<>>
    /\ kfiles = {}
    /\ dirs = {}
    /\ disk = {}
    /\ chroma = {}
    /\ clock = 1
    /\ nextFileId = 1
    /\ uploads = 0
    /\ kbCall = NoKbCall
    /\ cpc = [p \in Clients |-> Idle]

\* user 1 has created the knowledge base "docs"
InitKB ==
    /\ clock = 1
    /\ kbs = << NewKnowledgeBase(1, <<"docs">>) >>
    /\ kfiles = {}
    /\ dirs = { UploadDir(1, <<"docs">>), VectorDir(1, <<"docs">>) }
    /\ disk = {}
    /\ chroma = {}
    /\ nextFileId = 1
    /\ uploads = 0
    /\ kbCall = [NoKbCall EXCEPT !.op = "create_knowledge_base", !.user = 1,
                                 !.ok = TRUE, !.kb = 1, !.reason = "ok"]
    /\ cpc = [p \in Clients |-> Idle]

\* no request is being processed
InitStream ==
    /\ spc = "start"
    /\ sreq = NoReq
    /\ branch = "none"
    /\ in_reasoning = FALSE
    /\ out = <<>>
    /\ ntok = 0
    /\ llmUse = "none"
    /\ raised = FALSE

\* the encyclopedic service as constructed in online mode, not yet used
InitWikiOnline ==
    /\ wikiMode = InitOnlineMode.mode
    /\ vectorstore = InitOnlineMode.vs
    /\ wikiCount = 0
    /\ cache = EmptyCache
    /\ now = 0
    /\ wikiCall = [NoCall EXCEPT !.op = "__init__", !.target = "online",
                                 !.empty = TRUE, !.before = "online", !.ret = TRUE]

\* the knowledge bases a retrieval runs over: user 1 owns "docs" and "notes";
\* each holds one file cut into the chunks of a corpus, was last updated at
\* second 1 or 2, and its index is present, missing or cannot be opened
RetrNames == << <<"docs">>, <<"notes">> >>

\* the similarities of the chunks of one knowledge base to the query
Corpora == { <<>>, <<9>>, <<9, 6>> }

IndexStates == {"present", "missing", "corrupt"}

InitKBRetrieve ==
    \E c \in [1..2 -> Corpora], x \in [1..2 -> IndexStates], t \in [1..2 -> 1..2] :
        LET path(i) == PathJoin(UploadDir(1, RetrNames[i]),
                                UniqueFilename(1, <<"report.pdf">>))
            filled == { i \in 1..2 : Len(c[i]) > 0 }
            indexed == { i \in filled : x[i] # "missing" }
            ids == UNION { { <<i, j>> : j \in 1..Len(c[i]) } : i \in indexed }
        IN  /\ clock = 2
            /\ kbs = [i \in 1..2 |->
                        [user_id |-> 1, name |-> RetrNames[i],
                         vector_db_path |-> VectorDir(1, RetrNames[i]),
                         file_count |-> IF i \in filled THEN 1 ELSE 0,
                         document_count |-> Len(c[i]), is_active |-> TRUE,
                         updated_at |-> t[i]]]
            /\ kfiles = { [id |-> i, knowledge_base_id |-> i,
                           filename |-> UniqueFilename(1, <<"report.pdf">>),
                           original_filename |-> <<"report.pdf">>,
                           file_path |-> path(i), document_count |-> Len(c[i])] :
                          i \in filled }
            /\ dirs = { UploadDir(1, RetrNames[i]) : i \in 1..2 }
                        \cup { VectorDir(1, RetrNames[i]) :
                                 i \in { n \in 1..2 : x[n] # "missing" } }
            /\ disk = { path(i) : i \in filled }
            /\ chroma = { [dir |-> VectorDir(1, RetrNames[id[1]]), id |-> id,
                           source |-> path(id[1]), by |-> id[1]] : id \in ids }
            /\ nextFileId = 3
            /\ uploads = Cardinality(filled)
            /\ kbCall = NoKbCall
            /\ cpc = [p \in Clients |-> Idle]
            /\ sim = [id \in ids |-> c[id[1]][id[2]]]
            /\ corrupt = { VectorDir(1, RetrNames[i]) :
                             i \in { n \in 1..2 : x[n] = "corrupt" } }
            /\ rcall = NoRetrieval
            /\ ccall = NoCompress

\* no retrieval has run and there is nothing to retrieve from
InitRetrNone ==
    /\ sim = [id \in {} |-> 0]
    /\ corrupt = {}
    /\ rcall = NoRetrieval
    /\ ccall = NoCompress

\* a chunk list fresh from the splitter
InitTitle ==
    /\ \E n \in 0..MaxTitleChunks : \E texts \in [1..n -> Texts] :
          split_docs = [i \in 1..n |-> [page_content |-> texts[i], category |-> "none"]]
    /\ first_pass = <<>>
    /\ passes = 0

\* no chunk list is being processed
InitTitleNone ==
    /\ split_docs = <<>>
    /\ first_pass = <<>>
    /\ passes = 0

(***************************************************************************)
(* The two encyclopedic services of one process: the module-level service  *)
(* of routers/rag.py (wikiMode, vectorstore, cache) behind the endpoints,   *)
(* and the service RagChainService.__init__ builds for the chains           *)
(* (chain_wiki, chain_cache).                                               *)
(***************************************************************************)
\* top_k of a chat request, the limit of the chain's search
WikiTopK == 5
\* limit of the search of get_enhanced_context
EnhanceLimit == 3

\* "=== 维基百科补充信息 ===", the text the callers look for
Marker == <<"=== ", "weijibaike", "buchongxinxi", " ===">>

\* mode_text of get_enhanced_context: "在线维基百科" or "离线维基百科"
ModeText(mode) ==
    IF mode = "online" THEN <<"zaixian", "weijibaike">> ELSE <<"lixian", "weijibaike">>

\* f"=== {mode_text}补充信息 ===\n"
Header(mode) == <<"=== ">> \o ModeText(mode) \o <<"buchongxinxi", " ===", "nl">>

\* the numbered entries get_enhanced_context appends, one per result
RECURSIVE ResultLines(_, _)
ResultLines(wiki_results, i) ==
    IF i > Len(wiki_results) THEN <<>>
    ELSE <<"nl">> \o IntToStr(i) \o <<". ", wiki_results[i].title, "nl", "summary", "nl",
           "url", "nl">> \o ResultLines(wiki_results, i + 1)

\* the query of the requests of this part
ProcQueries == { <<"a">> }

\* what existing_context may be: empty, a plain text, a text that holds the marker
ExistingContexts == { <<>>, <<"ctx">>, <<"ctx">> \o Marker }

\* WikiKnowledgeBase.get_enhanced_context, after its search
GetEnhancedContext(wiki_results, mode, existing_context) ==
    IF wiki_results = <<>> THEN existing_context
    ELSE (IF existing_context # <<>> THEN existing_context \o <<"nl", "nl">> ELSE <<>>)
         \o Header(mode) \o ResultLines(wiki_results, 1)

\* the test of both callers: "=== 维基百科补充信息 ===" in enhanced_context
HasWikiContent(enhanced_context) == IsSubstring(Marker, enhanced_context)

\* search_knowledge(q, l) on the knowledge base with cache c over the service
\* [mode, vs]: the cache afterwards, the list returned, served from the cache or not
SearchKnowledgeOn(c, mode, vs, q, l, cnt, pages) ==
    LET key == CacheKey(q, l)
        via == SearchDispatch(mode, vs, wikiCount, cnt)
        results == ToResults(pages, mode, via)
    IN  IF CacheFresh(c, key, now)
        THEN [cache |-> c, data |-> c[key].data, hit |-> TRUE]
        ELSE [cache |-> CachePut(c, key, now, results, q, l), data |-> results,
              hit |-> FALSE]

NoPcall == [op |-> "none", ok |-> FALSE, mode |-> "none", key |-> <<>>, hit |-> FALSE,
            seen |-> FALSE, appended |-> FALSE, detected |-> FALSE]

\* POST /rag/wiki/switch-mode: switch_mode on the service of the router module
switch_wiki_mode ==
    \E t \in SwitchTargets, p \in ProbeOutcomes, o \in OpenOutcomes, c \in CountOutcomes :
        LET r == SwitchModeResult(wikiMode, vectorstore, t, p, o, c, wikiCount)
        IN  /\ wikiMode' = r.mode
            /\ vectorstore' = r.vs
            /\ last_switch' = IF r.ret THEN t ELSE last_switch
            /\ pcall' = [NoPcall EXCEPT !.op = "switch_wiki_mode", !.ok = r.ret,
                                        !.mode = r.mode]
            /\ UNCHANGED <<wikiCount, cache, now, wikiCall>>
            /\ UNCHANGED <<chain_wiki, chain_cache, answered>>
            /\ UNCHANGED otherVarsP

\* GET /rag/enhance-context-with-wiki: get_enhanced_context on the knowledge base
\* of the router module, then the marker test
enhance_context_with_wiki ==
    \E q \in ProcQueries, existing_context \in ExistingContexts,
       cnt \in CountOutcomes, pages \in PageLists :
        LET r == SearchKnowledgeOn(cache, wikiMode, vectorstore, q, EnhanceLimit,
                                   cnt, pages)
            enhanced_context == GetEnhancedContext(r.data, wikiMode, existing_context)
        IN  /\ cache' = r.cache
            /\ pcall' = [NoPcall EXCEPT !.op = "enhance_context_with_wiki",
                             !.ok = TRUE, !.mode = wikiMode,
                             !.key = CacheKey(q, EnhanceLimit), !.hit = r.hit,
                             !.appended = (r.data # <<>>),
                             !.detected = HasWikiContent(enhanced_context)]
            /\ UNCHANGED <<wikiMode, vectorstore, wikiCount, now, wikiCall>>
            /\ UNCHANGED <<chain_wiki, chain_cache, answered, last_switch>>
            /\ UNCHANGED otherVarsP

\* WikiEnhancedChain.stream: get_enhanced_context on rag_chain_service.wiki_kb,
\* then the marker test that selects the enhanced branch
WikiEnhancedChainStream ==
    \E q \in ProcQueries, cnt \in CountOutcomes, pages \in PageLists :
        LET r == SearchKnowledgeOn(chain_cache, chain_wiki.mode, chain_wiki.vs, q,
                                   EnhanceLimit, cnt, pages)
            enhanced_context == GetEnhancedContext(r.data, chain_wiki.mode, <<>>)
        IN  /\ chain_cache' = r.cache
            /\ pcall' = [NoPcall EXCEPT !.op = "WikiEnhancedChain",
                             !.ok = TRUE, !.mode = chain_wiki.mode,
                             !.key = CacheKey(q, EnhanceLimit), !.hit = r.hit,
                             !.appended = (r.data # <<>>),
                             !.detected = HasWikiContent(enhanced_context)]
            /\ UNCHANGED <<chain_wiki, answered, last_switch>>
            /\ UNCHANGED wikiVars
            /\ UNCHANGED otherVarsP

\* a chat request with use_wiki: create_rag_chain_for_user takes the service of
\* rag_chain_service, create_rag_chain_with_wiki wraps it in a new
\* WikiKnowledgeBase, and WikiStuffChain.stream searches through that one
WikiStuffChainStream ==
    \E q \in ProcQueries, st \in CountOutcomes, cnt \in CountOutcomes, pages \in PageLists :
        LET stats == GetDatabaseStats(chain_wiki.mode, chain_wiki.vs, wikiCount, cnt, st)
            wiki_kb == EmptyCache
            r == SearchKnowledgeOn(wiki_kb, chain_wiki.mode, chain_wiki.vs, q,
                                   WikiTopK, cnt, pages)
            key == CacheKey(q, WikiTopK)
        IN  /\ stats \in {"online", "offline"}
            /\ answered' = answered \cup {key}
            /\ pcall' = [NoPcall EXCEPT !.op = "WikiStuffChain", !.ok = TRUE,
                             !.mode = chain_wiki.mode, !.key = key, !.hit = r.hit,
                             !.seen = (key \in answered)]
            /\ UNCHANGED <<chain_wiki, chain_cache, last_switch>>
            /\ UNCHANGED wikiVars
            /\ UNCHANGED otherVarsP

\* both services are constructed in auto mode when their modules are imported
InitProc ==
    /\ \E p \in ProbeOutcomes, o \in OpenOutcomes, c \in CountOutcomes,
          n \in 0..MaxWikiChunks :
          LET s == InitAutoMode(p, o, c, n)
          IN  /\ wikiMode = s.mode
              /\ vectorstore = s.vs
              /\ wikiCount = n
              /\ wikiCall = [NoCall EXCEPT !.op = "__init__", !.target = "auto",
                                           !.probe = p, !.empty = (n = 0),
                                           !.before = "auto", !.ret = TRUE, !.cnt = c]
    /\ cache = EmptyCache
    /\ now = 0
    /\ \E p \in ProbeOutcomes, o \in OpenOutcomes, c \in CountOutcomes :
          LET s == InitAutoMode(p, o, c, wikiCount)
          IN  chain_wiki = [mode |-> s.mode, vs |-> s.vs]
    /\ chain_cache = EmptyCache
    /\ answered = {}
    /\ last_switch = "none"
    /\ pcall = NoPcall

\* no endpoint or chain call over the two services has run
InitProcNone ==
    /\ chain_wiki = [mode |-> "online", vs |-> "unset"]
    /\ chain_cache = EmptyCache
    /\ answered = {}
    /\ last_switch = "none"
    /\ pcall = NoPcall

(***************************************************************************)
(* WikiService: the requests to the online API.                            *)
(***************************************************************************)
\* timeout=5 of the mode probe
ProbeTimeout == 5
\* no timeout argument: requests waits for the answer without limit
NoTimeout == 0

\* the timeout each request site passes to session.get
Timeout(site) == IF site = "probe" THEN ProbeTimeout ELSE NoTimeout

\* the endpoint answers, answers with an error or refuses, or never answers
Behaviours == {"answers", "fails", "silent"}

\* session.get at a site against an endpoint behaving as b
Request(site, b) ==
    IF b = "answers" THEN "answers"
    ELSE IF b = "fails" THEN "raises"
    ELSE IF Timeout(site) # NoTimeout THEN "raises"
    ELSE "blocked"

\* the call goes on to the next title, or returns when none is left
NextHit(left) == IF left = 0 THEN "returned" ELSE "summary"

\* _init_auto_mode or switch_mode("online") starts its probe
StartProbe ==
    /\ opc = "idle"
    /\ opc' = "probe"
    /\ olimit' = 0
    /\ ohits' = 0 /\ opages' = <<>> /\ oreqs' = 0
    /\ UNCHANGED oblocked
    /\ UNCHANGED otherVarsO

\* the probe request; any exception is caught by the caller
ProbeRequest ==
    /\ opc = "probe" /\ ~oblocked
    /\ \E b \in Behaviours :
        LET r == Request("probe", b)
        IN  /\ oblocked' = (r = "blocked")
            /\ opc' = IF r = "blocked" THEN opc ELSE "returned"
    /\ oreqs' = oreqs + 1
    /\ UNCHANGED <<olimit, ohits, opages>>
    /\ UNCHANGED otherVarsO

\* _search_online is entered
StartSearch ==
    /\ opc = "idle"
    /\ opc' = "search"
    /\ \E limit \in 1..MaxHits : olimit' = limit
    /\ ohits' = 0 /\ opages' = <<>> /\ oreqs' = 0
    /\ UNCHANGED oblocked
    /\ UNCHANGED otherVarsO

\* the keyword search request of _search_online; on an exception [] is returned
SearchRequest ==
    /\ opc = "search" /\ ~oblocked
    /\ \E b \in Behaviours, n \in 0..olimit :
        LET r == Request("search", b)
        IN  /\ oblocked' = (r = "blocked")
            /\ ohits' = IF r = "answers" THEN n ELSE 0
            /\ opc' = IF r = "blocked" THEN opc
                      ELSE IF r = "raises" THEN "returned"
                      ELSE NextHit(n)
    /\ oreqs' = oreqs + 1
    /\ UNCHANGED <<olimit, opages>>
    /\ UNCHANGED otherVarsO

\* the summary request of _get_page_content; on an exception the title is skipped
SummaryRequest ==
    /\ opc = "summary" /\ ~oblocked
    /\ \E b \in Behaviours :
        LET r == Request("summary", b)
        IN  /\ oblocked' = (r = "blocked")
            /\ ohits' = IF r = "raises" THEN ohits - 1 ELSE ohits
            /\ opc' = IF r = "blocked" THEN opc
                      ELSE IF r = "raises" THEN NextHit(ohits - 1)
                      ELSE "content"
    /\ oreqs' = oreqs + 1
    /\ UNCHANGED <<olimit, opages>>
    /\ UNCHANGED otherVarsO

\* the content request of _get_page_content; on an exception the title is skipped
ContentRequest ==
    /\ opc = "content" /\ ~oblocked
    /\ \E b \in Behaviours :
        LET r == Request("content", b)
        IN  /\ oblocked' = (r = "blocked")
            /\ ohits' = IF r = "raises" THEN ohits - 1 ELSE ohits
            /\ opc' = IF r = "blocked" THEN opc
                      ELSE IF r = "raises" THEN NextHit(ohits - 1)
                      ELSE "categories"
    /\ oreqs' = oreqs + 1
    /\ UNCHANGED <<olimit, opages>>
    /\ UNCHANGED otherVarsO

\* the request of _get_page_categories; on an exception the page has no categories
CategoriesRequest ==
    /\ opc = "categories" /\ ~oblocked
    /\ \E b \in Behaviours :
        LET r == Request("categories", b)
        IN  /\ oblocked' = (r = "blocked")
            /\ ohits' = IF r = "blocked" THEN ohits ELSE ohits - 1
            /\ opages' = IF r = "blocked" THEN opages
                         ELSE Append(opages, [categories |-> (r = "answers")])
            /\ opc' = IF r = "blocked" THEN opc ELSE NextHit(ohits - 1)
    /\ oreqs' = oreqs + 1
    /\ UNCHANGED olimit
    /\ UNCHANGED otherVarsO

\* the caller has its answer; the service is ready for the next call
Return ==
    /\ opc = "returned"
    /\ opc' = "idle"
    /\ olimit' = 0
    /\ ohits' = 0 /\ opages' = <<>> /\ oreqs' = 0
    /\ UNCHANGED oblocked
    /\ UNCHANGED otherVarsO

\* no call to the online API is running
InitOnlineNone ==
    /\ opc = "idle"
    /\ olimit = 0
    /\ ohits = 0
    /\ opages = <<>>
    /\ oreqs = 0
    /\ oblocked = FALSE

(***************************************************************************)
(* LLMController.process_message without retrieval: what the chain is      *)
(* handed.                                                                 *)
(***************************************************************************)
Roles == {"user", "assistant"}
Contents == {"c1", "c2"}
PromptNames == {"none", "chat_default", "custom"}
\* the current message of the payload
Message == "msg"

\* the lists DatabaseService.get_chat_history can return
Histories ==
    UNION { [1..n -> [role : Roles, content : Contents]] : n \in 0..MaxHistory }

HumanMessage(content) == [type |-> "human", content |-> content]
AIMessage(content) == [type |-> "ai", content |-> content]

\* mutant: the assistant turns are replayed as user messages
HistoryMessagesAllHuman(chat_history) ==
    [i \in DOMAIN chat_history |-> HumanMessage(chat_history[i].content)]

\* history_messages: the loop over chat_history
RECURSIVE HistoryMessages(_)
HistoryMessages(chat_history) ==
    IF chat_history = <<>> THEN <<>>
    ELSE LET hist == Head(chat_history)
             rest == HistoryMessages(Tail(chat_history))
         IN  IF hist.role = "user" THEN <<HumanMessage(hist.content)>> \o rest
             ELSE IF hist.role = "assistant" THEN <<AIMessage(hist.content)>> \o rest
             ELSE rest

\* full_messages = history_messages + [HumanMessage(content=message)]
FullMessages(chat_history, message) ==
    HistoryMessages(chat_history) \o <<HumanMessage(message)>>

NoHanded == [kind |-> "none", messages |-> <<>>, input |-> "none"]

\* process_message with use_rag and use_wiki off, up to the call of the chain
process_message ==
    /\ mpc = "start"
    /\ \E chain \in BOOLEAN :
        handed' =
            IF ~chain THEN [NoHanded EXCEPT !.kind = "raises"]
            ELSE IF mreq.mode = "generate"
                THEN [kind |-> "generation_chain", messages |-> <<>>,
                      input |-> mreq.message]
            ELSE IF mreq.prompt_name \notin {"none", "chat_default"}
                THEN [kind |-> "chat_chain",
                      messages |-> FullMessages(mreq.chat_history, mreq.message),
                      input |-> "none"]
            ELSE [kind |-> "simple_chat_chain",
                  messages |-> FullMessages(mreq.chat_history, mreq.message),
                  input |-> "none"]
    /\ mpc' = "done"
    /\ UNCHANGED mreq
    /\ UNCHANGED otherVarsM

\* a payload as routers/chat.py builds it
InitMsg ==
    /\ mpc = "start"
    /\ \E mode \in Modes, prompt_name \in PromptNames, chat_history \in Histories :
          mreq = [mode |-> mode, prompt_name |-> prompt_name,
                  chat_history |-> chat_history, message |-> Message]
    /\ handed = NoHanded

\* no request without retrieval is being processed
InitMsgNone ==
    /\ mpc = "start"
    /\ mreq = [mode |-> "none", prompt_name |-> "none", chat_history |-> <<>>,
               message |-> Message]
    /\ handed = NoHanded

InitRestNone == InitProcNone /\ InitOnlineNone /\ InitMsgNone

(***************************************************************************)
(* Specifications.                                                         *)
(***************************************************************************)
\* the service: construction, mode switches, searches, index growth
NextWiki ==
    \/ switch_mode
    \/ search_articles
    \/ process_extracted_articles
    \/ init_with_jsonl_data

InitSpecWiki == InitWiki /\ InitKBEmpty /\ InitStream /\ InitRetrNone /\ InitTitleNone /\ InitRestNone

SpecWiki == InitSpecWiki /\ [][NextWiki]_vars

\* the query cache in front of the service
NextWikiCache ==
    \/ search_knowledge
    \/ Tick

SpecWikiCache == InitSpecWiki /\ [][NextWikiCache]_vars

\* uploads and deletions on existing knowledge bases
NextKB ==
    \/ upload_file_to_knowledge_base
    \/ delete_file_from_knowledge_base
    \/ delete_knowledge_base
    \/ ClockTick

InitSpecKB == InitKB /\ InitWikiOnline /\ InitStream /\ InitRetrNone /\ InitTitleNone /\ InitRestNone

SpecKB == InitSpecKB /\ [][NextKB]_vars

\* uploads and file deletions only: the knowledge base itself stays
NextKBFiles ==
    \/ upload_file_to_knowledge_base
    \/ delete_file_from_knowledge_base
    \/ ClockTick

SpecKBFiles == InitSpecKB /\ [][NextKBFiles]_vars

\* clients creating and deleting knowledge bases concurrently
NextCreate ==
    \/ create_knowledge_base
    \/ delete_knowledge_base

InitSpecCreate == InitKBEmpty /\ InitWikiOnline /\ InitStream /\ InitRetrNone /\ InitTitleNone /\ InitRestNone

SpecCreate == InitSpecCreate /\ [][NextCreate]_vars

\* one request; the encyclopedic service is in any state construction leaves it
\* in, and user 1 has a knowledge base or none
NextStream ==
    \/ Dispatch
    \/ ChainYields
    \/ ChainEnds
    \/ ChainRaises

InitSpecStream == InitWiki /\ (InitKB \/ InitKBEmpty) /\ InitStream /\ InitRetrNone /\ InitTitleNone /\ InitRestNone

SpecStream == InitSpecStream /\ [][NextStream]_vars

\* retrievals over the knowledge bases of user 1
NextRetrieve ==
    \/ get_rag_context
    \/ rag_query

InitSpecRetrieve ==
    InitKBRetrieve /\ InitWikiOnline /\ InitStream /\ InitTitleNone /\ InitRestNone

SpecRetrieve == InitSpecRetrieve /\ [][NextRetrieve]_vars

\* the reranker on its own, over every candidate list
NextRerank == compress_documents

InitSpecRerank == InitKBEmpty /\ InitWikiOnline /\ InitStream /\ InitRetrNone /\ InitTitleNone /\ InitRestNone

SpecRerank == InitSpecRerank /\ [][NextRerank]_vars

\* title enrichment run once or twice over one chunk list
NextTitle == zh_title_enhance

InitSpecTitle ==
    InitKBEmpty /\ InitWikiOnline /\ InitStream /\ InitRetrNone /\ InitTitle /\ InitRestNone

SpecTitle == InitSpecTitle /\ [][NextTitle]_vars

\* the endpoints of the router and the chains of the orchestrator, each over its
\* own encyclopedic service
NextProc ==
    \/ switch_wiki_mode
    \/ enhance_context_with_wiki
    \/ WikiEnhancedChainStream
    \/ WikiStuffChainStream

InitSpecProc ==
    /\ InitProc /\ InitKBEmpty /\ InitStream /\ InitRetrNone /\ InitTitleNone
    /\ InitOnlineNone /\ InitMsgNone

SpecProc == InitSpecProc /\ [][NextProc]_vars

\* calls of the service to the online API, one after another
NextOnline ==
    \/ StartProbe
    \/ ProbeRequest
    \/ StartSearch
    \/ SearchRequest
    \/ SummaryRequest
    \/ ContentRequest
    \/ CategoriesRequest
    \/ Return

InitSpecOnline ==
    /\ InitOnlineNone /\ InitWikiOnline /\ InitKBEmpty /\ InitStream /\ InitRetrNone
    /\ InitTitleNone /\ InitProcNone /\ InitMsgNone

SpecOnline == InitSpecOnline /\ [][NextOnline]_vars

\* the calls run in a thread that is scheduled until it blocks
SpecOnlineLive == SpecOnline /\ WF_vars(NextOnline)

\* one request without retrieval
NextMsg == process_message

InitSpecMsg ==
    /\ InitMsg /\ InitWikiOnline /\ InitKBEmpty /\ InitStream /\ InitRetrNone
    /\ InitTitleNone /\ InitProcNone /\ InitOnlineNone

SpecMsg == InitSpecMsg /\ [][NextMsg]_vars

(***************************************************************************)
(* Claims about the knowledge base manager.                                *)
(***************************************************************************)
\* the ids of the rows of knowledge_files
FileIds == { f.id : f \in kfiles }

\* C4: when every chunk of the index belongs to a recorded file and the vector
\* store does not fail, a successful delete of file i removes the chunks created
\* by the ingestion of file i, all of them and no others.
C4_DeleteRemovesExactlyOwnChunks ==
    ( /\ kbCall.op = "delete_file"
      /\ kbCall.ok
      /\ kbCall.reason = "deletes"
      /\ \A c \in chroma \cup kbCall.removed : c.by \in FileIds \cup {kbCall.file} )
    => /\ \A c \in kbCall.removed : c.by = kbCall.file
       /\ \A c \in chroma : c.by # kbCall.file

\* C5: after uploads and file deletions, the chunk count of every row of
\* knowledge_files equals the number of chunks that delete-by-source selects for
\* that file in the index of its knowledge base.
C5_RecordCountMatchesIndex ==
    \A f \in kfiles :
        f.document_count =
            Cardinality(MatchingIds(chroma, kbs[f.knowledge_base_id].vector_db_path, f))

\* C6: when an upload fails after the bytes were written, the file it wrote is
\* no longer on disk when the call returns.
C6_FailedUploadLeavesNoFile ==
    (kbCall.op = "upload" /\ ~kbCall.ok /\ kbCall.written) => kbCall.path \notin disk

\* C7: no owner has two active knowledge bases with the same name.
C7_ActiveNamesUnique ==
    \A i, j \in KbIds :
        ( /\ i # j
          /\ kbs[i].is_active /\ kbs[j].is_active
          /\ kbs[i].user_id = kbs[j].user_id )
        => kbs[i].name # kbs[j].name

(***************************************************************************)
(* Claims about process_message.                                           *)
(***************************************************************************)
\* opening delimiters minus closing delimiters among the first k fragments
Depth(k) ==
    Cardinality({ i \in 1..k : out[i] = Open }) - Cardinality({ i \in 1..k : out[i] = Close })

\* the positions of the error fragments in the output
ErrorPositions == { i \in 1..Len(out) : out[i] \in ErrorFragments }

\* C1: at every point of the output the reasoning delimiters are balanced to
\* depth 0 or 1, reasoning tokens lie inside a delimiter pair and answer tokens
\* outside, and the depth is 0 when the output has ended, also when the stream
\* was cut short by a model error.
C1_ReasoningDelimitersBalanced ==
    /\ \A k \in 0..Len(out) : Depth(k) \in {0, 1}
    /\ \A i \in 1..Len(out) : out[i] = "r" => Depth(i) = 1
    /\ \A i \in 1..Len(out) : out[i] = "a" => Depth(i) = 0
    /\ spc = "done" => Depth(Len(out)) = 0

\* C2: when the language model has raised while the output was consumed, the
\* finished output holds exactly one error fragment and it is the last fragment.
C2_SingleTerminalError ==
    (spc = "done" /\ raised) =>
        /\ Cardinality(ErrorPositions) = 1
        /\ out # <<>>
        /\ out[Len(out)] \in ErrorFragments

\* C3: when retrieval is requested (use_rag, or use_wiki which forces it) and no
\* chain could be constructed, the request ends with the single error fragment
\* of the failure, the language model was handed nothing, and no answer token
\* was emitted.
C3_NoChainNoPlainChat ==
    (spc # "start" /\ (sreq.use_rag \/ sreq.use_wiki) /\ sreq.chain = "none") =>
        /\ spc = "done"
        /\ out = <<ErrChain>>
        /\ llmUse = "none"
        /\ \A i \in 1..Len(out) : out[i] # "a"

\* retrieval was requested without the encyclopedic source by an owner without
\* any active knowledge base, and the request ended with the failure
C3_Witness ==
    /\ spc = "done"
    /\ sreq.use_rag
    /\ ~sreq.use_wiki
    /\ UserKnowledgeBases(sreq.user_id) = {}
    /\ sreq.chain = "none"
    /\ out = <<ErrChain>>

(***************************************************************************)
(* Retrieval properties.                                                   *)
(***************************************************************************)
\* the chunks stored in the readable indexes of the active knowledge bases of
\* user_id that reach the threshold
Matching(user_id, threshold) ==
    { c.id : c \in { d \in chroma :
        /\ \E i \in UserKnowledgeBases(user_id) : kbs[i].vector_db_path = d.dir
        /\ LoadVectorstore(d.dir)
        /\ sim[d.id] >= threshold } }

\* C11: retrieval draws on every active knowledge base of the caller. After
\* get_rag_context and after a RAG query whose chain has been asked, a passage
\* that matches in any of the caller's knowledge bases leads to a non-empty
\* result, every result is such a passage, get_rag_context returns at most top_k
\* passages, and a non-empty result of get_rag_context gives a non-empty context.
C11_RetrievalSpansAllKnowledgeBases ==
    /\ rcall.op = "get_rag_context" =>
          /\ Len(rcall.results) <= rcall.top_k
          /\ \A i \in DOMAIN rcall.results :
                 rcall.results[i] \in Matching(rcall.user, ContextThreshold)
          /\ Matching(rcall.user, ContextThreshold) # {} => rcall.results # <<>>
          /\ rcall.results # <<>> => rcall.context # ""
    /\ rcall.op = "rag_query" =>
          /\ \A i \in DOMAIN rcall.results :
                 rcall.results[i] \in Matching(rcall.user, ChainThreshold)
          /\ Matching(rcall.user, ChainThreshold) # {} => rcall.results # <<>>

\* C12: when the reranker was requested and its model cannot be constructed or
\* its scoring raises, the chain is still built and the passages handed to it are
\* the first top_n of the candidates fetched, in their order.
C12_RerankerFailureDegradesToTopN ==
    (/\ rcall.op = "rag_query"
     /\ rcall.use_reranker
     /\ rcall.reranker \in {"init_raises", "predict_raises"}
     /\ rcall.kb # 0
     /\ LoadVectorstore(kbs[rcall.kb].vector_db_path))
    => /\ rcall.chain = "kb"
       /\ Len(rcall.results) <= rcall.top_k
       /\ rcall.results = Take(rcall.candidates, rcall.top_k)

\* the position of document d in the candidate list of the last call
PositionOf(d) == CHOOSE i \in DOMAIN ccall.documents : ccall.documents[i] = d

\* C13: compress_documents with top_n >= 0 returns exactly
\* min(top_n, len(documents)) documents, each one of the candidates and none
\* twice; when the scoring ran they are the best by score, in descending order
\* of score, each annotated with its score.
C13_RerankReturnsTopN ==
    ccall.op = "compress_documents" =>
        LET r == ccall.returned
            docs == { ccall.documents[i] : i \in DOMAIN ccall.documents }
            chosen == { r[i].doc : i \in DOMAIN r }
        IN  /\ Len(r) = Min(ccall.top_n, Len(ccall.documents))
            /\ Len(r) <= ccall.top_n
            /\ chosen \subseteq docs
            /\ Cardinality(chosen) = Len(r)
            /\ ccall.predict = "scores" =>
                  /\ \A i \in DOMAIN r :
                         r[i].relevance_score = ccall.score[PositionOf(r[i].doc)]
                  /\ \A i, j \in DOMAIN r :
                         i < j => r[i].relevance_score >= r[j].relevance_score
                  /\ \A d \in docs \ chosen : \A i \in DOMAIN r :
                         ccall.score[PositionOf(d)] <= r[i].relevance_score

\* three candidates with different scores were reranked down to two, and a
\* scoring failure has been seen on a list longer than top_n
C13_Witness ==
    /\ ccall.op = "compress_documents"
    /\ ccall.predict = "scores"
    /\ Len(ccall.documents) = 3
    /\ ccall.top_n = 2
    /\ ccall.score[1] < ccall.score[3]
    /\ Len(ccall.returned) = 2
    /\ ccall.returned[1].doc = ccall.documents[3]

\* knowledge base i of the last query contributes nothing: its index is
\* missing, cannot be opened or holds no chunk
Broken(i) ==
    \/ ~LoadVectorstore(kbs[i].vector_db_path)
    \/ { d \in chroma : d.dir = kbs[i].vector_db_path } = {}

\* knowledge base i has a readable index with a passage that matches
Healthy(i) ==
    /\ LoadVectorstore(kbs[i].vector_db_path)
    /\ \E d \in chroma : d.dir = kbs[i].vector_db_path /\ sim[d.id] >= ChainThreshold

\* C19: a RAG query of an owner with one broken and one healthy knowledge base
\* gets its chain and retrieves the passages of the healthy one, whichever of
\* the two was updated last.
C19_BrokenBaseDoesNotAbort ==
    (/\ rcall.op = "rag_query"
     /\ \E b, h \in UserKnowledgeBases(rcall.user) : Broken(b) /\ Healthy(h))
    => /\ rcall.chain = "kb"
       /\ rcall.results # <<>>
       /\ \A i \in DOMAIN rcall.results :
              \E h \in UserKnowledgeBases(rcall.user) :
                  /\ Healthy(h)
                  /\ \E d \in chroma : d.id = rcall.results[i]
                                       /\ d.dir = kbs[h].vector_db_path

(***************************************************************************)
(* Knowledge base manager: failure handling and statistics.                *)
(***************************************************************************)
\* C14: delete_knowledge_base on a knowledge base of the caller soft-deletes the
\* row even when removing the vector directory or the upload directory fails.
C14_DeleteCompletesDespiteCleanupFailure ==
    ( /\ kbCall.op = "delete_knowledge_base"
      /\ kbCall.reason \in {"vector_rmtree_raises", "upload_rmtree_raises"} )
    => /\ ~kbs[kbCall.kb].is_active
       /\ kbCall.kb \notin UserKnowledgeBases(kbCall.user)

\* the statistics of knowledge base kb_id agree with its rows of knowledge_files
StatsMatch(kb_id) ==
    LET mine == { f \in kfiles : f.knowledge_base_id = kb_id }
    IN  /\ kbs[kb_id].file_count = Cardinality(mine)
        /\ kbs[kb_id].document_count = SumDocumentCount(mine)

OwnsActive(call) ==
    /\ call.kb \in KbIds
    /\ kbs[call.kb].user_id = call.user
    /\ kbs[call.kb].is_active

\* C16: an upload, a file deletion or a knowledge base deletion that names a
\* knowledge base which does not exist, is not active or is not the caller's, or
\* a file that is not in it, returns not-found and leaves the tables, the
\* directories, the files on disk and the index as they were.
C16_NotFoundChangesNothing ==
    [][ ( /\ kbCall' # kbCall
          /\ kbCall'.op \in {"upload", "delete_file", "delete_knowledge_base"}
          /\ \/ ~OwnsActive(kbCall')
             \/ /\ kbCall'.op = "delete_file"
                /\ \A f \in kfiles : ~(f.id = kbCall'.file
                                         /\ f.knowledge_base_id = kbCall'.kb) )
        => /\ kbCall'.reason = "not_found"
           /\ ~kbCall'.ok
           /\ UNCHANGED <<kbs, kfiles, dirs, disk, chroma>> ]_vars

\* a user asked to delete a file of a knowledge base of another user
C16_Witness ==
    /\ kbCall.op = "delete_file"
    /\ kbCall.reason = "not_found"
    /\ kbCall.kb \in KbIds
    /\ kbs[kbCall.kb].user_id # kbCall.user
    /\ \E f \in kfiles : f.id = kbCall.file /\ f.knowledge_base_id = kbCall.kb

\* C17: an upload whose payload is over the maximum is refused as too large
\* before anything is written, whether or not the request reports the size.
C17_OversizeRejectedBeforeWrite ==
    ( /\ kbCall.op = "upload"
      /\ kbCall.size \in {"over", "over_unreported"}
      /\ kbCall.reason # "not_found" )
    => /\ kbCall.reason = "too_large"
       /\ ~kbCall.written
       /\ kbCall.file = 0

PrefixCount(text) ==
    Cardinality({ i \in 1..(Len(text) - 3) :
                    SubSeq(text, i, i + 3) = <<"xia", "wen", "yu", "(">> })

\* C20: a second pass of title enrichment over an enriched chunk list returns
\* what the first pass returned, and no chunk carries more than one
\* back-reference prefix.
C20_SecondPassChangesNothing ==
    passes = 2 =>
        /\ PageContents(split_docs) = first_pass
        /\ \A i \in DOMAIN split_docs : PrefixCount(split_docs[i].page_content) <= 1

\* C21: every chunk that document processing returns at ingest (the splitter's
\* chunks after the title enrichment pass) is at most chunk_size long.
C21_ChunksWithinChunkSize ==
    passes = 1 =>
        \A i \in DOMAIN split_docs : Len(split_docs[i].page_content) <= MaxChunkLen

\* C22: a dispatched request with use_wiki set and use_rag clear that gets a
\* chain is answered by the encyclopedic chain (whose stream starts with the
\* encyclopedic search for the query), never by the plain chat or plain generate
\* branch, and never by another retrieval chain.
C22_WikiOnlyHandledAsRag ==
    (spc # "start" /\ sreq.use_wiki /\ ~sreq.use_rag /\ branch # "none")
        => branch = "wiki_rag"

C25_SwitchSucceedsOnlyAfterProbe ==
    (wikiCall.op = "switch_mode" /\ wikiCall.ret) =>
        /\ wikiCall.target = "online" => wikiCall.probe = "ok200"
        /\ wikiCall.target = "offline" =>
                (vectorstore = "open" /\ wikiCall.cnt = "answers" /\ ~wikiCall.empty)
        /\ wikiCall.target \in {"online", "offline"}

\* C26: a switch_mode call that returns failure leaves the mode, the index
\* handle and the query cache as they were.
C26_FailedSwitchChangesNothing ==
    [][ (switch_mode /\ ~wikiCall'.ret) =>
            /\ wikiMode' = wikiMode
            /\ vectorstore' = vectorstore
            /\ cache' = cache ]_vars

\* C29: every result of search_knowledge is tagged wikipedia_offline exactly when
\* the offline index search produced it and wikipedia_online exactly when the
\* online search produced it, also when a search in offline mode falls back to
\* the online search.
C29_SourceTagMatchesSearch ==
    wikiCall.op = "search_knowledge" =>
        \A i \in DOMAIN wikiCall.data :
            /\ wikiCall.data[i].source = "wikipedia_offline"
                    <=> wikiCall.data[i].via = "offline"
            /\ wikiCall.data[i].source = "wikipedia_online"
                    <=> wikiCall.data[i].via = "online"

\* C24: once a switch through the mode-switch endpoint has succeeded, the search
\* of every later chat request runs in the mode that switch set; and a chat
\* request whose (query, limit) an earlier chat request searched for inside the
\* time to live is served from the cache.
C24_OneModeOneCache ==
    pcall.op = "WikiStuffChain" =>
        /\ last_switch # "none" => pcall.mode = last_switch
        /\ pcall.seen => pcall.hit

\* C30: the enhance-context endpoint reports has_wiki_content, and the
\* wiki-enhanced chain takes its enhanced branch, exactly when
\* get_enhanced_context appended at least one encyclopedic result.
C30_AppendedContentDetected ==
    pcall.op \in {"enhance_context_with_wiki", "WikiEnhancedChain"} =>
        (pcall.detected <=> pcall.appended)

\* C27: every call that starts a probe or a keyword search of the online API
\* returns to its caller, whatever the endpoint does, also when it never answers.
C27_OnlineCallsReturn ==
    (opc \in {"probe", "search"}) ~> (opc = "returned")

\* C28: without retrieval, in chat mode under the default template the chain is
\* handed one message per prior turn, in order, a user turn as a user message and
\* an assistant turn as an assistant message, and the current message last; in
\* generate mode it is handed the current message and no prior turn.
C28_HistoryReplayedInOrder ==
    (mpc = "done" /\ handed.kind # "raises") =>
        /\ (mreq.mode # "generate" /\ mreq.prompt_name \in {"none", "chat_default"}) =>
              /\ Len(handed.messages) = Len(mreq.chat_history) + 1
              /\ \A i \in DOMAIN mreq.chat_history :
                    /\ handed.messages[i].content = mreq.chat_history[i].content
                    /\ handed.messages[i].type =
                          IF mreq.chat_history[i].role = "user" THEN "human" ELSE "ai"
              /\ handed.messages[Len(handed.messages)] =
                    [type |-> "human", content |-> mreq.message]
        /\ mreq.mode = "generate" =>
              (handed.messages = <<>> /\ handed.input = mreq.message)

\* a chat request under the default template with a two-turn history was handed on
C28_Witness ==
    /\ mpc = "done"
    /\ handed.kind = "simple_chat_chain"
    /\ Len(mreq.chat_history) = 2
    /\ mreq.chat_history[1].role = "user"
    /\ mreq.chat_history[2].role = "assistant"


====
